---- MODULE Spec2Model ----
(***************************************************************************)
(* Storage temperature monitor (working18.py; working12.py shares the      *)
(* sensor reader, the monitoring loop and the settings code).              *)
(*                                                                         *)
(* Conventions.                                                            *)
(*   - A Python value that may be None is an option: None is <<>>, a       *)
(*     value v is <<v>>.                                                   *)
(*   - A Python dict is the sequence of its <<key, value>> pairs in        *)
(*     insertion order, keys unique.                                       *)
(*   - Sensor temperatures are integers (degrees C).  A threshold is a     *)
(*     Python float that came out of float(str): a number, nan, inf or     *)
(*     -inf, written [k |-> "num"|"nan"|"inf"|"ninf", v |-> Int].          *)
(*   - A quotient sum/len is kept exact as [num |-> sum, den |-> len].     *)
(*   - time.time() is `now` (whole seconds); the calendar date is `today`. *)
(***************************************************************************)
EXTENDS Integers, Sequences, FiniteSets, TLC

(***************************************************************************)
(* Options and dicts                                                       *)
(***************************************************************************)
None == <<>>

Some(v) == <<v>>

IsNone(o) == o = <<>>

Val(o) == o[1]

DictKeys(d) == {d[i][1] : i \in 1..Len(d)}

DictHas(d, k) == \E i \in 1..Len(d) : d[i][1] = k

\* d[k] = v: an existing key keeps its place, a new key goes last.
DictSet(d, k, v) ==
    IF DictHas(d, k)
    THEN [i \in 1..Len(d) |-> IF d[i][1] = k THEN <<k, v>> ELSE d[i]]
    ELSE Append(d, <<k, v>>)

\* d[k] / d.get(k)
DictGet(d, k) == d[CHOOSE i \in 1..Len(d) : d[i][1] = k][2]

\* list(d.values())
DictValues(d) == [i \in 1..Len(d) |-> d[i][2]]

\* `if d:` -- None and the empty dict are both falsy.
Truthy(o) == ~IsNone(o) /\ Len(Val(o)) > 0

(***************************************************************************)
(* Python floats as they come out of float(str)                            *)
(***************************************************************************)
F(n) == [k |-> "num", v |-> n]

NaN == [k |-> "nan", v |-> 0]

PosInf == [k |-> "inf", v |-> 0]

NegInf == [k |-> "ninf", v |-> 0]

\* a < b on floats; every comparison with nan is False.
FLt(a, b) ==
    CASE a.k = "nan" \/ b.k = "nan" -> FALSE
      [] a.k = "num" /\ b.k = "num" -> a.v < b.v
      [] a.k = "ninf" -> b.k # "ninf"
      [] a.k = "inf" -> FALSE
      [] OTHER -> b.k = "inf"

\* a >= b on floats
FGe(a, b) ==
    CASE a.k = "nan" \/ b.k = "nan" -> FALSE
      [] OTHER -> ~FLt(a, b)

\* a > b on floats
FGt(a, b) == FLt(b, a)

\* The text fields this model types into an entry box, with the value float()
\* gives each numeral.  float() also accepts "nan" and "inf"; any other text
\* raises ValueError.
Numerals == ("2" :> 2) @@ ("25" :> 25) @@ ("27" :> 27) @@ ("30" :> 30) @@ ("33" :> 33)

\* float(text): Some(value), or None for ValueError.
ParseFloat(text) ==
    IF text \in DOMAIN Numerals THEN Some(F(Numerals[text]))
    ELSE IF text = "nan" THEN Some(NaN)
    ELSE IF text = "inf" THEN Some(PosInf)
    ELSE IF text = "-inf" THEN Some(NegInf)
    ELSE None

(***************************************************************************)
(* StorageTemperatureReader                                                *)
(*                                                                         *)
(* A WMI sensor is [Name, SensorType, Value, Parent]: Value is an option   *)
(* (None: sensor.Value is None), Parent is an option (None: the object has *)
(* no Parent attribute).  The keyword tests are substring tests on the     *)
(* lower-cased name; the tables below say which names of this model        *)
(* contain which words.                                                    *)
(***************************************************************************)
\* names whose lower case contains "temperature"
HasTemperatureWord(name) == name \in {"Temperature", "SSD Temperature"}

\* names whose lower case contains one of the words of storage_keywords of
\* _is_storage_sensor: /hdd/0, /hdd/1 (hdd), /nvme/0 (nvme), SSD Temperature (ssd)
HasStorageKeyword(name) ==
    name \in {"/hdd/0", "/hdd/1", "/nvme/0", "SSD Temperature"}

\* names whose lower case contains one of the words of storage_keywords of
\* _find_storage_temps_alternative: hdd, ssd and wd are on it, nvme is not
HasAltStorageKeyword(name) ==
    name \in {"/hdd/0", "/hdd/1", "WD Blue", "SSD Temperature"}

_is_storage_sensor(sensor_name, parent_name) ==
    /\ HasTemperatureWord(sensor_name)
    /\ \/ (parent_name # "" /\ HasStorageKeyword(parent_name))
       \/ HasStorageKeyword(sensor_name)

\* the calibration subtracted on the primary path
PrimaryOffset == 13

\* the calibration subtracted on the alternative path
AlternativeOffset == 10

\* all_temp_sensors: the temperature sensors with a value, Parent defaulted
AllTempSensors(sensors) ==
    LET keep(s) == s.SensorType = "Temperature" /\ ~IsNone(s.Value)
        conv(s) == [name |-> s.Name, value |-> Val(s.Value),
                    parent |-> IF IsNone(s.Parent) THEN "Unknown" ELSE Val(s.Parent)]
    IN  [i \in 1..Len(SelectSeq(sensors, keep)) |-> conv(SelectSeq(sensors, keep)[i])]

\* storage_sensors: those _is_storage_sensor accepts
StorageSensors(sensors) ==
    LET ok(s) == _is_storage_sensor(s.name, s.parent)
    IN  SelectSeq(AllTempSensors(sensors), ok)

\* the primary path's loop over storage_sensors, building storage_temps
RECURSIVE OrganizeTemps(_, _)
OrganizeTemps(ss, storage_temps) ==
    IF ss = <<>> THEN storage_temps
    ELSE LET sensor == Head(ss)
             device_name == IF sensor.parent # "" /\ sensor.parent # "Unknown"
                            THEN sensor.parent ELSE sensor.name
             adjusted_temp == sensor.value - PrimaryOffset
         IN  OrganizeTemps(Tail(ss), DictSet(storage_temps, device_name, adjusted_temp))

\* storage_devices: the hardware names that hold an alternative keyword
AltStorageDevices(hardware) ==
    {hardware[i] : i \in {j \in 1..Len(hardware) : HasAltStorageKeyword(hardware[j])}}

\* the alternative path's loop over the raw sensors
RECURSIVE AltTemps(_, _, _)
AltTemps(sensors, storage_devices, storage_temps) ==
    IF sensors = <<>> THEN storage_temps
    ELSE LET s == Head(sensors)
             hit == /\ s.SensorType = "Temperature"
                    /\ ~IsNone(s.Value)
                    /\ ~IsNone(s.Parent)
                    /\ Val(s.Parent) \in storage_devices
         IN  AltTemps(Tail(sensors), storage_devices,
                      IF hit
                      THEN DictSet(storage_temps, Val(s.Parent), Val(s.Value) - AlternativeOffset)
                      ELSE storage_temps)

\* env is what the sensor source answers to this query:
\*   [raises: w.Sensor() raises, sensors, hw_raises: w.Hardware() raises, hardware]
_find_storage_temps_alternative(env) ==
    LET storage_temps == IF env.hw_raises THEN <<>>
                         ELSE AltTemps(env.sensors, AltStorageDevices(env.hardware), <<>>)
    IN  IF Len(storage_temps) > 0 THEN Some(storage_temps) ELSE None

\* a reader that always adds what the alternative method finds to what the
\* primary path found
RECURSIVE MergeDict(_, _)
MergeDict(d, extra) ==
    IF extra = <<>> THEN d
    ELSE MergeDict(DictSet(d, Head(extra)[1], Head(extra)[2]), Tail(extra))

GetStorageTemperaturesMerged(ohm_available, env) ==
    IF ~ohm_available THEN [result |-> None, ohm_available |-> FALSE]
    ELSE IF env.raises THEN [result |-> None, ohm_available |-> FALSE]
    ELSE LET primary == OrganizeTemps(StorageSensors(env.sensors), <<>>)
             alt == _find_storage_temps_alternative(env)
             storage_temps == IF IsNone(alt) THEN primary ELSE MergeDict(primary, Val(alt))
         IN  [result |-> IF Len(storage_temps) > 0 THEN Some(storage_temps) ELSE None,
              ohm_available |-> TRUE]

\* [result |-> the dict or None, ohm_available |-> the flag afterwards]
get_storage_temperatures(ohm_available, env) ==
    IF ~ohm_available THEN [result |-> None, ohm_available |-> FALSE]
    ELSE IF env.raises THEN [result |-> None, ohm_available |-> FALSE]
    ELSE LET storage_temps == OrganizeTemps(StorageSensors(env.sensors), <<>>)
         IN  [result |-> IF Len(storage_temps) > 0 THEN Some(storage_temps)
                         ELSE _find_storage_temps_alternative(env),
              ohm_available |-> TRUE]

\* sum(values)
RECURSIVE SumSeq(_)
SumSeq(vs) == IF vs = <<>> THEN 0 ELSE Head(vs) + SumSeq(Tail(vs))

\* a maximum that takes the first value
FirstOfSeq(vs) == vs[1]

\* max(values): the builtin keeps the first of equal maxima
RECURSIVE MaxSeq(_)
MaxSeq(vs) ==
    IF Len(vs) = 1 THEN vs[1]
    ELSE LET m == MaxSeq(SubSeq(vs, 1, Len(vs) - 1))
         IN  IF vs[Len(vs)] > m THEN vs[Len(vs)] ELSE m

\* max(d, key=d.get): the first key, in dict order, that holds the largest value
RECURSIVE MaxKey(_)
MaxKey(d) ==
    IF Len(d) = 1 THEN d[1][1]
    ELSE LET k == MaxKey(SubSeq(d, 1, Len(d) - 1))
         IN  IF d[Len(d)][2] > DictGet(d, k) THEN d[Len(d)][1] ELSE k

\* get_average_storage_temperature applied to the sample it drew
AverageOf(storage_temps) ==
    IF Truthy(storage_temps)
    THEN Some([num |-> SumSeq(DictValues(Val(storage_temps))),
               den |-> Len(Val(storage_temps))])
    ELSE None

\* get_max_storage_temperature applied to the sample it drew
MaxOf(storage_temps) ==
    IF Truthy(storage_temps) THEN Some(MaxSeq(DictValues(Val(storage_temps)))) ELSE None

\* max_device of get_max_storage_temperature
MaxDeviceOf(storage_temps) ==
    IF Truthy(storage_temps) THEN Some(MaxKey(Val(storage_temps))) ELSE None

\* get_max_storage_temperature(): a fresh sample, then its maximum
get_max_storage_temperature(ohm, env) ==
    LET r == get_storage_temperatures(ohm, env)
    IN  [result |-> MaxOf(r.result), device |-> MaxDeviceOf(r.result),
         ohm_available |-> r.ohm_available]

\* get_average_storage_temperature(): a fresh sample, then its mean
get_average_storage_temperature(ohm, env) ==
    LET r == get_storage_temperatures(ohm, env)
    IN  [result |-> AverageOf(r.result), ohm_available |-> r.ohm_available]

(***************************************************************************)
(* State                                                                   *)
(***************************************************************************)
VARIABLES
    now,                     \* time.time(), whole seconds
    today,                   \* the calendar date of datetime.now(), a day number
    ohm_available,           \* StorageTemperatureReader.ohm_available
    warning_temp,            \* TemperatureMonitor.warning_temp
    critical_temp,           \* TemperatureMonitor.critical_temp
    settings_file,           \* temperature_monitor_settings.json: None or <<contents>>
    warning_var,             \* the text of the warning entry box
    critical_var,            \* the text of the critical entry box
    refresh_rate_var,        \* the text of the refresh-rate box
    messagebox,              \* the dialog the last handler showed ("": none yet)
    start_button,            \* state of the Start Alerts button
    stop_button,             \* state of the Stop Alerts button
    is_monitoring,
    alert_monitoring_active,
    last_warning_time,
    temp_history,            \* deque(maxlen=50)
    time_history,            \* deque(maxlen=50)
    min_temp,                \* digest window minimum (a float)
    max_temp,                \* digest window maximum (a float)
    storage_temperatures,    \* the dict of the last poll, or None
    mon_pc,                  \* monitor thread: "loop" | "done"
    start_time,              \* monitor_temperature's start_time
    wake_at,                 \* the end of the monitor thread's current sleep
    after_queue,             \* every root.after(0, ...) call made, in call order
    log_buffer,              \* LogManager.log_buffer
    writer_pc,               \* writer_pc[i]: the thread writing log_buffer[i]
    writer_file,             \* writer_file[i]: the file that thread holds open (None: none)
    last_log_index,          \* LogManager.last_log_index
    live_log,                \* the lines get_new_logs has returned, call after call
    log_text,                \* LiveLogWindow.log_text: None without a window, else its lines
    last_email_time,         \* TemperatureMonitor.last_email_time
    email_pc,                \* email scheduler thread: "loop" | "done" | "killed"
    email_wake_at,           \* the end of the scheduler's current sleep
    email_log,               \* every send_email_report call made, in call order
    after_done,              \* how many root.after callbacks the main loop has run
    ui_pc,                   \* the main thread inside a handler ("idle": in none)
    mon_locals,              \* the locals of the monitor thread's iteration (None: at the top)
    current_log_file,        \* LogManager.current_log_file (the date in its name)
    files,                   \* "Daily logs": date |-> the lines of that day's file
    exports,                 \* Downloads: export file name |-> its lines
    date_vars,               \* the start and end date fields of the search window
    current_logs,            \* DateSearchExportWindow.current_logs
    console,                 \* the last "Hottest storage" line printed (None: none)
    last_op                  \* the operation that made the last step

envVars == <<now, today>>

settingsVars == <<warning_temp, critical_temp, settings_file, warning_var, critical_var>>

alertVars == <<alert_monitoring_active, last_warning_time>>

buttonVars == <<start_button, stop_button>>

historyVars == <<temp_history, time_history>>

digestVars == <<min_temp, max_temp>>

monitorVars == <<ohm_available, storage_temperatures, mon_pc, start_time, wake_at,
                 refresh_rate_var, is_monitoring>>

logVars == <<log_buffer, writer_pc, writer_file, current_log_file, files>>

viewerVars == <<last_log_index, live_log, log_text>>

emailVars == <<last_email_time, email_pc, email_wake_at, email_log>>

searchVars == <<exports, date_vars, current_logs>>

fineVars == <<ui_pc, mon_locals>>

vars == <<envVars, settingsVars, alertVars, historyVars, digestVars, monitorVars,
          logVars, searchVars, buttonVars, after_queue, messagebox, console, last_op,
          viewerVars, emailVars, after_done, fineVars>>

(***************************************************************************)
(* Program constants and model bounds                                      *)
(***************************************************************************)
\* deque(maxlen=50)
HistoryMaxLen == 50

\* self.warning_cooldown
warning_cooldown == 30

\* the defaults of __init__
DefaultWarning == 27

DefaultCritical == 30

\* time.time() when the program starts (seconds; any value above the cooldown
\* and the email interval, as every real clock is)
Epoch == 5000

\* the first calendar date of a run
FirstDay == 1

(***************************************************************************)
(* LogManager                                                              *)
(***************************************************************************)
\* The entry log_temperature composes: "[timestamp] message", or
\* "[timestamp] temp_type: value°C" when message is empty.  text is a
\* tuple: the message (or the type) followed by the values formatted into it.
LogEntry(date, time, temp_type, value, message) ==
    [date |-> date, time |-> time,
     text |-> IF message # <<>> THEN message ELSE <<temp_type, value>>]

\* a deque without maxlen: nothing is ever dropped
DequeAppendUnbounded(q, x) == Append(q, x)

\* deque.append under maxlen: a full deque drops its oldest element
DequeAppend(q, x) ==
    IF Len(q) >= HistoryMaxLen THEN Append(Tail(q), x) ELSE Append(q, x)

\* f.write(log_entry + "\n"): the line as it lies in the file
WriteLine(log_entry) == [text |-> log_entry, eol |-> "\n"]

\* [log.strip() for log in f.readlines() if log.strip()] of one daily file.
\* strip() takes the line break off; an entry starts with "[" and the texts
\* this program composes end in a letter or in "°C", so nothing else goes.
\* A line whose text is empty is blank and is dropped.
ReadLines(file) ==
    LET nonblank(line) == line.text.text # <<>>
        kept == SelectSeq(file, nonblank)
    IN  [i \in 1..Len(kept) |-> kept[i].text]

\* a range loop that stops before end_date
RECURSIVE RangeBeforeEnd(_, _, _)
RangeBeforeEnd(fs, start_date, end_date) ==
    IF start_date < end_date
    THEN (IF start_date \in DOMAIN fs THEN ReadLines(fs[start_date]) ELSE <<>>)
         \o RangeBeforeEnd(fs, start_date + 1, end_date)
    ELSE <<>>

\* get_logs_for_date_range: the while loop from start_date to end_date
RECURSIVE get_logs_for_date_range(_, _, _)
get_logs_for_date_range(fs, start_date, end_date) ==
    IF start_date <= end_date
    THEN (IF start_date \in DOMAIN fs THEN ReadLines(fs[start_date]) ELSE <<>>)
         \o get_logs_for_date_range(fs, start_date + 1, end_date)
    ELSE <<>>

\* the name export_logs_to_file gives the export file
ExportFileName(start_date, end_date) ==
    IF start_date = end_date
    THEN <<"temperature_export", start_date>>
    ELSE <<"temperature_export", start_date, "to", end_date>>

\* the five header lines and the separator export_logs_to_file writes first
ExportHeader(start_date, end_date, date, time) ==
    << <<"# Temperature Logs Export">>,
       <<"# Date Range", start_date, end_date>>,
       <<"# Exported on", date, time>>,
       <<"# Format: [TIMESTAMP] LOG_ENTRY">>,
       <<"# Source: Storage Temperature Monitor">>,
       <<"=" , 60>> >>

\* an export that does not look whether the range gave any line
ExportWithoutEmptyTest(fs, ex, start_date, end_date, date, time, io_fails) ==
    LET logs == get_logs_for_date_range(fs, start_date, end_date)
    IN  IF io_fails THEN [ret |-> FALSE, exports |-> ex]
        ELSE [ret |-> TRUE,
              exports |-> [n \in DOMAIN ex \cup {ExportFileName(start_date, end_date)} |->
                             IF n = ExportFileName(start_date, end_date)
                             THEN ExportHeader(start_date, end_date, date, time) \o logs
                             ELSE ex[n]]]

\* export_logs_to_file: [ret |-> the return value, exports |-> Downloads after]
\* io_fails: open() of the export file raises
export_logs_to_file(fs, ex, start_date, end_date, date, time, io_fails) ==
    LET logs == get_logs_for_date_range(fs, start_date, end_date)
    IN  IF logs = <<>> THEN [ret |-> FALSE, exports |-> ex]
        ELSE IF io_fails THEN [ret |-> FALSE, exports |-> ex]
        ELSE [ret |-> TRUE,
              exports |-> [n \in DOMAIN ex \cup {ExportFileName(start_date, end_date)} |->
                             IF n = ExportFileName(start_date, end_date)
                             THEN ExportHeader(start_date, end_date, date, time) \o logs
                             ELSE ex[n]]]

\* get_all_logs: the lines of all daily files, the files sorted by name,
\* which is by date
RECURSIVE AllLogsOf(_, _)
AllLogsOf(fs, dates) ==
    IF dates = {} THEN <<>>
    ELSE LET first == CHOOSE d \in dates : \A e \in dates : d <= e
         IN  ReadLines(fs[first]) \o AllLogsOf(fs, dates \ {first})

get_all_logs(fs) == AllLogsOf(fs, DOMAIN fs)

\* current_logs[self.last_log_index:]
SliceFrom(logs, index) == SubSeq(logs, index + 1, Len(logs))

\* log_temperature called once per entry of `entries`, in order: each call
\* appends to log_buffer and starts a writer thread for its entry.
LogTemperature(entries) ==
    /\ log_buffer' = log_buffer \o entries
    /\ writer_pc' = writer_pc \o [i \in 1..Len(entries) |-> "start"]
    /\ writer_file' = writer_file \o [i \in 1..Len(entries) |-> None]

Entry(temp_type, value, message) == LogEntry(today, now, temp_type, value, message)

\* _write_to_file, first step: get_current_log_file() and the rotation test
WriterBegin(i) ==
    /\ writer_pc[i] = "start"
    /\ current_log_file' = IF today # current_log_file THEN today ELSE current_log_file
    /\ writer_pc' = [writer_pc EXCEPT ![i] = "open"]
    /\ last_op' = [op |-> "_write_to_file.begin", i |-> i]
    /\ UNCHANGED <<fineVars, envVars, viewerVars, emailVars, after_done, settingsVars, alertVars,
                   historyVars, digestVars, monitorVars, log_buffer, writer_file, files,
                   searchVars, buttonVars, after_queue, messagebox, console>>

\* _write_to_file, second step: open(self.current_log_file, 'a'), which makes
\* the file when there is none.  No lock is taken anywhere in LogManager.
WriterOpen(i) ==
    /\ writer_pc[i] = "open"
    /\ writer_file' = [writer_file EXCEPT ![i] = Some(current_log_file)]
    /\ files' = [d \in DOMAIN files \cup {current_log_file} |->
                   IF d \in DOMAIN files THEN files[d] ELSE <<>>]
    /\ writer_pc' = [writer_pc EXCEPT ![i] = "writing"]
    /\ last_op' = [op |-> "_write_to_file.open", i |-> i]
    /\ UNCHANGED <<fineVars, envVars, viewerVars, emailVars, after_done, settingsVars, alertVars,
                   historyVars, digestVars, monitorVars, log_buffer, current_log_file,
                   searchVars, buttonVars, after_queue, messagebox, console>>

\* _write_to_file, third step: f.write(log_entry + "\n") and the close, on
\* the file the thread opened
WriterWrite(i) ==
    /\ writer_pc[i] = "writing"
    /\ files' = [files EXCEPT ![Val(writer_file[i])] = Append(@, WriteLine(log_buffer[i]))]
    /\ writer_file' = [writer_file EXCEPT ![i] = None]
    /\ writer_pc' = [writer_pc EXCEPT ![i] = "done"]
    /\ last_op' = [op |-> "_write_to_file.write", i |-> i]
    /\ UNCHANGED <<fineVars, envVars, viewerVars, emailVars, after_done, settingsVars, alertVars,
                   historyVars, digestVars, monitorVars, log_buffer, current_log_file,
                   searchVars, buttonVars, after_queue, messagebox, console>>

(***************************************************************************)
(* The environment's clocks                                                *)
(***************************************************************************)
Tick(d) ==
    /\ now' = now + d
    /\ last_op' = [op |-> "tick", d |-> d]
    /\ UNCHANGED <<fineVars, today, viewerVars, emailVars, after_done, settingsVars, alertVars,
                   historyVars, digestVars, monitorVars,
                   logVars, searchVars, buttonVars, after_queue, messagebox, console>>

Midnight ==
    /\ today' = today + 1
    /\ last_op' = [op |-> "midnight"]
    /\ UNCHANGED <<fineVars, now, viewerVars, emailVars, after_done, settingsVars, alertVars,
                   historyVars, digestVars, monitorVars,
                   logVars, searchVars, buttonVars, after_queue, messagebox, console>>

(***************************************************************************)
(* The alert engine of monitor_temperature                                 *)
(***************************************************************************)
\* the class the if/elif chain gives a reading under thresholds w, c
Classify(m, w, c) ==
    IF FGe(F(m), c) THEN "CRITICAL"
    ELSE IF FGe(F(m), w) THEN "WARNING"
    ELSE "NORMAL"

\* a cooldown test that lets an alert through at exactly the cooldown
CooldownElapsedAtEqual(t, last) == t - last >= warning_cooldown

\* current_absolute_time - self.last_warning_time > self.warning_cooldown
CooldownElapsed(t, last) == t - last > warning_cooldown

\* an alert test that forgets the alert switch
AlertFiresWhenOff(active, m, w, c, t, last) ==
    /\ Classify(m, w, c) # "NORMAL"
    /\ CooldownElapsed(t, last)

\* whether this cycle schedules a notification
AlertFires(active, m, w, c, t, last) ==
    /\ active
    /\ Classify(m, w, c) # "NORMAL"
    /\ CooldownElapsed(t, last)

\* a cooldown kept for CRITICAL alerts only
LastWarningTimeCriticalOnly(fires, m, w, c, t, last) ==
    IF fires /\ Classify(m, w, c) = "CRITICAL" THEN t ELSE last

\* self.last_warning_time after the alert check: both branches store the time
LastWarningTimeAfter(fires, m, w, c, t, last) == IF fires THEN t ELSE last

\* the root.after(0, self.send_desktop_notification, title, message, max_temp) call
Notification(m, w, c, t) ==
    [fn |-> "send_desktop_notification",
     title |-> IF Classify(m, w, c) = "CRITICAL"
               THEN "CRITICAL STORAGE TEMPERATURE ALERT!"
               ELSE "HIGH STORAGE TEMPERATURE WARNING",
     temp |-> m, at |-> t]

\* the root.after(0, self.update_display, max_temp, avg_temp, ..., current_time) call
\* (the cpu and memory figures, which nothing here reads, are left out)
DisplayUpdate(m, a, current_time, t) ==
    [fn |-> "update_display", max_temp |-> m, avg_temp |-> a,
     current_time |-> current_time, at |-> t]

\* a loop that passes over a cycle without a reading in silence
UnavailableLogSkipped(date, time) == <<>>

\* what the else branch logs: one "Error" entry
UnavailableLog(date, time) ==
    << LogEntry(date, time, "Error", 0, <<"No temperature data available from sensors">>) >>

\* refresh_delay = max(1, float(self.refresh_rate_var.get())), or 2 when the
\* text is no number.  max(1, nan) is 1; max(1, inf) is inf, which time.sleep
\* refuses with OverflowError: None.
RefreshDelay(text) ==
    LET p == ParseFloat(text)
    IN  IF IsNone(p) THEN Some(2)
        ELSE IF Val(p).k = "inf" THEN None
        ELSE IF Val(p).k = "num" /\ Val(p).v > 1 THEN Some(Val(p).v)
        ELSE Some(1)

\* the fixed back-off of the except branch
ErrorBackoff == 5

(***************************************************************************)
(* monitor_temperature: one iteration of the loop, from the while test to  *)
(* the sleep.  e1, e2, e3 are what the sensor source answers to the three  *)
(* queries of the iteration.                                               *)
(***************************************************************************)
MonitorCycle(e1, e2, e3) ==
    LET r1 == get_storage_temperatures(ohm_available, e1)
        r2 == get_max_storage_temperature(r1.ohm_available, e2)
        r3 == get_average_storage_temperature(r2.ohm_available, e3)
        temps == r1.result
        m == r2.result
        a == r3.result
        current_time == now - start_time
        fires == AlertFires(alert_monitoring_active, Val(m), warning_temp, critical_temp,
                            now, last_warning_time)
        delay == RefreshDelay(refresh_rate_var)
        sleep_error == IF IsNone(delay)
                       THEN << Entry("Error", 0, <<"Monitoring error", "OverflowError">>) >>
                       ELSE <<>>
    IN  /\ mon_pc = "loop"
        /\ is_monitoring
        /\ now >= wake_at
        /\ storage_temperatures' = temps
        /\ ohm_available' = r3.ohm_available
        /\ IF ~IsNone(m)
           THEN /\ min_temp' = IF FLt(F(Val(m)), min_temp) THEN F(Val(m)) ELSE min_temp
                /\ max_temp' = IF FGt(F(Val(m)), max_temp) THEN F(Val(m)) ELSE max_temp
                /\ temp_history' = DequeAppend(temp_history, Val(m))
                /\ time_history' = DequeAppend(time_history, current_time)
                /\ LogTemperature(
                     (IF ~IsNone(a) THEN << Entry("Average Temperature", Val(a), <<>>) >>
                      ELSE <<>>)
                     \o << Entry("Max Temperature", Val(m), <<>>) >>
                     \o (IF Truthy(temps)
                         THEN << Entry("Storage Details", 0,
                                       <<"Storage temperatures", Val(temps)>>) >>
                         ELSE <<>>)
                     \o sleep_error)
                /\ after_queue' = after_queue \o
                     (IF fires
                      THEN << DisplayUpdate(m, a, current_time, now),
                              Notification(Val(m), warning_temp, critical_temp, now) >>
                      ELSE << DisplayUpdate(m, a, current_time, now) >>)
                /\ last_warning_time' = LastWarningTimeAfter(fires, Val(m), warning_temp,
                                                             critical_temp, now, last_warning_time)
           ELSE /\ after_queue' = Append(after_queue, DisplayUpdate(None, None, current_time, now))
                /\ LogTemperature(UnavailableLog(today, now) \o sleep_error)
                /\ UNCHANGED <<min_temp, max_temp, temp_history, time_history,
                               last_warning_time>>
        /\ wake_at' = now + (IF IsNone(delay) THEN ErrorBackoff ELSE Val(delay))
        /\ last_op' = [op |-> "monitor_cycle", e1 |-> e1, e2 |-> e2, e3 |-> e3]
        /\ UNCHANGED <<fineVars, envVars, viewerVars, emailVars, after_done, settingsVars,
                       alert_monitoring_active, mon_pc, start_time,
                       refresh_rate_var, is_monitoring, current_log_file, files,
                       searchVars, buttonVars, messagebox>>
        /\ console' = IF IsNone(m) THEN console
                      ELSE Some([device |-> Val(r2.device), temp |-> Val(m)])

(***************************************************************************)
(* The handlers of the main window                                         *)
(***************************************************************************)
start_alert_monitoring ==
    /\ start_button = "normal"
    /\ alert_monitoring_active' = TRUE
    /\ start_button' = "disabled"
    /\ stop_button' = "normal"
    /\ LogTemperature(<< Entry("System", 0, <<"Alert monitoring enabled">>) >>)
    /\ messagebox' = "Alerts Enabled"
    /\ last_op' = [op |-> "start_alert_monitoring"]
    /\ UNCHANGED <<fineVars, envVars, viewerVars, emailVars, after_done, settingsVars,
                   last_warning_time, historyVars, digestVars,
                   monitorVars, current_log_file, files, searchVars, after_queue, console>>

stop_alert_monitoring ==
    /\ stop_button = "normal"
    /\ alert_monitoring_active' = FALSE
    /\ start_button' = "normal"
    /\ stop_button' = "disabled"
    /\ LogTemperature(<< Entry("System", 0, <<"Alert monitoring disabled">>) >>)
    /\ messagebox' = "Alerts Disabled"
    /\ last_op' = [op |-> "stop_alert_monitoring"]
    /\ UNCHANGED <<fineVars, envVars, viewerVars, emailVars, after_done, settingsVars,
                   last_warning_time, historyVars, digestVars,
                   monitorVars, current_log_file, files, searchVars, after_queue, console>>

\* a variant of the test of update_settings: only warning > critical is turned down
RejectsPairStrict(new_warning, new_critical) == FGt(new_warning, new_critical)

\* whether update_settings turns the parsed pair down
RejectsPair(new_warning, new_critical) == FGe(new_warning, new_critical)

\* save_settings: the file after json.dump; io_fails: open() raises
save_settings(file, w, c, io_fails) ==
    IF io_fails THEN file ELSE Some([critical_temp |-> c, warning_temp |-> w])

\* The user types w_text and c_text into the two boxes and presses Update.
update_settings(w_text, c_text, io_fails) ==
    LET new_warning == ParseFloat(w_text)
        new_critical == ParseFloat(c_text)
    IN  /\ warning_var' = w_text
        /\ critical_var' = c_text
        /\ IF IsNone(new_warning) \/ IsNone(new_critical)
           THEN /\ messagebox' = "Please enter valid numbers for temperature thresholds"
                /\ UNCHANGED <<warning_temp, critical_temp, settings_file, log_buffer,
                               writer_pc, writer_file>>
           ELSE IF RejectsPair(Val(new_warning), Val(new_critical))
           THEN /\ messagebox' = "Warning temperature must be lower than critical temperature"
                /\ UNCHANGED <<warning_temp, critical_temp, settings_file, log_buffer,
                               writer_pc, writer_file>>
           ELSE /\ warning_temp' = Val(new_warning)
                /\ critical_temp' = Val(new_critical)
                /\ settings_file' = save_settings(settings_file, Val(new_warning),
                                                  Val(new_critical), io_fails)
                /\ LogTemperature(<< Entry("System", 0,
                                           <<"Settings updated", Val(new_warning),
                                             Val(new_critical)>>) >>)
                /\ messagebox' = "Temperature settings updated successfully"
        /\ last_op' = [op |-> "update_settings", w |-> w_text, c |-> c_text]
        /\ UNCHANGED <<fineVars, envVars, viewerVars, emailVars, after_done, alertVars, historyVars,
                       digestVars, monitorVars,
                       current_log_file, files, searchVars, buttonVars, after_queue, console>>

(***************************************************************************)
(* The handlers of the search and export window.  A date field holds a     *)
(* date (Some(day)) or text strptime refuses (None).                       *)
(***************************************************************************)
search_logs(start_field, end_field) ==
    /\ date_vars' = <<start_field, end_field>>
    /\ IF IsNone(start_field) \/ IsNone(end_field)
       THEN /\ messagebox' = "Invalid date format. Please use YYYY-MM-DD"
            /\ UNCHANGED current_logs
       ELSE IF Val(start_field) > Val(end_field)
       THEN /\ messagebox' = "Start date cannot be after end date"
            /\ UNCHANGED current_logs
       ELSE /\ current_logs' = get_logs_for_date_range(files, Val(start_field), Val(end_field))
            /\ UNCHANGED messagebox
    /\ last_op' = [op |-> "search_logs", s |-> start_field, e |-> end_field]
    /\ UNCHANGED <<fineVars, envVars, viewerVars, emailVars, after_done, settingsVars, alertVars,
                   historyVars, digestVars, monitorVars,
                   logVars, exports, buttonVars, after_queue, console>>

export_logs(start_field, end_field, io_fails) ==
    /\ date_vars' = <<start_field, end_field>>
    /\ IF current_logs = <<>>
       THEN /\ messagebox' = "No logs to export. Please search for logs first."
            /\ UNCHANGED exports
       ELSE IF IsNone(start_field) \/ IsNone(end_field)
       THEN /\ messagebox' = "Invalid date format in date fields"
            /\ UNCHANGED exports
       ELSE LET r == export_logs_to_file(files, exports, Val(start_field), Val(end_field),
                                         today, now, io_fails)
            IN  /\ exports' = r.exports
                /\ messagebox' = IF r.ret THEN "Logs exported successfully to Downloads folder!"
                                 ELSE "Failed to export logs"
    /\ last_op' = [op |-> "export_logs", s |-> start_field, e |-> end_field]
    /\ UNCHANGED <<fineVars, envVars, viewerVars, emailVars, after_done, settingsVars, alertVars,
                   historyVars, digestVars, monitorVars,
                   logVars, current_logs, buttonVars, after_queue, console>>

\* get_new_logs, as update_live_log of the log viewer calls it every second
get_new_logs ==
    LET all_logs == get_all_logs(files)
        new_logs == SliceFrom(all_logs, last_log_index)
    IN  /\ last_log_index' = Len(all_logs)
        /\ live_log' = live_log \o new_logs
        /\ last_op' = [op |-> "get_new_logs", new_logs |-> new_logs]
        /\ UNCHANGED <<log_text, fineVars, envVars, emailVars, after_done, settingsVars, alertVars, historyVars,
                       digestVars, monitorVars, logVars, searchVars, buttonVars,
                       after_queue, messagebox, console>>

(***************************************************************************)
(* Email reports.  e is what the sensor source answers to the query that   *)
(* send_email_report makes; smtp_ok says whether the SMTP exchange works.  *)
(***************************************************************************)
\* self.email_interval
email_interval == 3600

\* the scheduler's time.sleep(30)
EmailPeriod == 30

\* whether send_email_report gets through: the body formats 'N/A' with
\* ":.1f", which raises ValueError, whenever current_max is None or 0 or the
\* digest window is empty; after that the SMTP exchange has to work
ReportSucceeds(current_max, lo, hi, smtp_ok) ==
    /\ ~IsNone(current_max)
    /\ Val(current_max) # 0
    /\ lo # PosInf
    /\ hi # NegInf
    /\ smtp_ok

\* the entry send_email_report logs
ReportEntry(current_max, ok) ==
    IF ok THEN Entry("Email", Val(current_max), <<"Scheduled email report sent">>)
    ELSE Entry("Error", 0, <<"Failed to send email">>)

\* send_email_report: it reads the state, queries the sensor source once,
\* logs one entry and returns whether the report went out.  Every exception
\* inside is caught there.
send_email_report(e, smtp_ok, scheduled) ==
    LET r == get_max_storage_temperature(ohm_available, e)
        ok == ReportSucceeds(r.result, min_temp, max_temp, smtp_ok)
    IN  /\ ohm_available' = r.ohm_available
        /\ console' = IF IsNone(r.result) THEN console
                      ELSE Some([device |-> Val(r.device), temp |-> Val(r.result)])
        /\ LogTemperature(<< ReportEntry(r.result, ok) >>)
        /\ email_log' = Append(email_log, [at |-> now, ok |-> ok, scheduled |-> scheduled])

\* a scheduler that moves last_email_time only when the report went out
LastEmailTimeOnSuccess(scheduled, ok, t, last) == IF scheduled /\ ok THEN t ELSE last

\* a test button that moves last_email_time like a scheduled report
LastEmailTimeOnAnySend(scheduled, ok, t, last) == t

\* self.last_email_time after a send_email_report call: the scheduler stores
\* the time of its check whatever the outcome, send_test_email stores nothing
LastEmailTimeAfter(scheduled, ok, t, last) == IF scheduled THEN t ELSE last

\* whether the report made at time t with outcome ok went out
SentOk(e, smtp_ok) ==
    ReportSucceeds(get_max_storage_temperature(ohm_available, e).result,
                   min_temp, max_temp, smtp_ok)

\* email_scheduler: one iteration of the loop, from the while test to the sleep
EmailCheck(e, smtp_ok) ==
    LET current_time == now
        due == current_time - last_email_time >= email_interval
        attempt == due /\ Truthy(storage_temperatures)
    IN  /\ email_pc = "loop"
        /\ is_monitoring
        /\ now >= email_wake_at
        /\ IF attempt
           THEN /\ send_email_report(e, smtp_ok, TRUE)
                /\ last_email_time' = LastEmailTimeAfter(TRUE, SentOk(e, smtp_ok),
                                                         current_time, last_email_time)
           ELSE UNCHANGED <<ohm_available, console, log_buffer, writer_pc, writer_file,
                            email_log, last_email_time>>
        /\ IF due
           THEN /\ min_temp' = PosInf
                /\ max_temp' = NegInf
           ELSE UNCHANGED <<min_temp, max_temp>>
        /\ email_wake_at' = now + EmailPeriod
        /\ last_op' = [op |-> "email_check", due |-> due, attempt |-> attempt]
        /\ UNCHANGED <<fineVars, envVars, viewerVars, after_done, settingsVars, alertVars, historyVars,
                       storage_temperatures, mon_pc, start_time, wake_at, refresh_rate_var,
                       is_monitoring, email_pc, current_log_file, files, searchVars,
                       buttonVars, after_queue, messagebox>>

\* The user presses Send Test Email.
send_test_email(e, smtp_ok) ==
    /\ send_email_report(e, smtp_ok, FALSE)
    /\ last_email_time' = LastEmailTimeAfter(FALSE, SentOk(e, smtp_ok), now, last_email_time)
    /\ messagebox' = IF SentOk(e, smtp_ok) THEN "Test email sent successfully!"
                     ELSE "Failed to send test email. Check your email configuration."
    /\ last_op' = [op |-> "send_test_email", ok |-> SentOk(e, smtp_ok)]
    /\ UNCHANGED <<fineVars, envVars, viewerVars, after_done, settingsVars, alertVars, historyVars,
                   digestVars, storage_temperatures, mon_pc, start_time, wake_at,
                   refresh_rate_var, is_monitoring, email_pc, email_wake_at,
                   current_log_file, files, searchVars, buttonVars, after_queue>>

(***************************************************************************)
(* The state after TemperatureMonitor.__init__: the settings file is       *)
(* absent, the threads are started and the first entry is logged.          *)
(***************************************************************************)
Init ==
    /\ now = Epoch
    /\ today = FirstDay
    /\ ohm_available = TRUE
    /\ warning_temp = F(DefaultWarning)
    /\ critical_temp = F(DefaultCritical)
    /\ settings_file = None
    /\ warning_var = "27"
    /\ critical_var = "30"
    /\ refresh_rate_var = "2"
    /\ messagebox = ""
    /\ start_button = "normal"
    /\ stop_button = "disabled"
    /\ is_monitoring = TRUE
    /\ alert_monitoring_active = TRUE
    /\ last_warning_time = 0
    /\ temp_history = <<>>
    /\ time_history = <<>>
    /\ min_temp = PosInf
    /\ max_temp = NegInf
    /\ storage_temperatures = Some(<<>>)
    /\ mon_pc = "loop"
    /\ start_time = Epoch
    /\ wake_at = Epoch
    /\ after_queue = <<>>
    /\ log_buffer = << LogEntry(FirstDay, Epoch, "System", "N/A",
                                <<"Storage Temperature Monitor started - logging initialized">>) >>
    /\ writer_pc = << "start" >>
    /\ writer_file = << None >>
    /\ last_log_index = 0
    /\ live_log = <<>>
    /\ log_text = None
    /\ last_email_time = 0
    /\ email_pc = "loop"
    /\ email_wake_at = Epoch
    /\ email_log = <<>>
    /\ after_done = 0
    /\ ui_pc = "idle"
    /\ mon_locals = None
    /\ current_log_file = FirstDay
    /\ files = << >>
    /\ exports = << >>
    /\ date_vars = <<Some(FirstDay), Some(FirstDay)>>
    /\ current_logs = <<>>
    /\ console = None
    /\ last_op = [op |-> "__init__"]

(***************************************************************************)
(* What the sensor source answers                                          *)
(***************************************************************************)
Sensor(name, value, parent) ==
    [Name |-> name, SensorType |-> "Temperature", Value |-> Some(value),
     Parent |-> Some(parent)]

EnvOf(sensors, hardware) ==
    [raises |-> FALSE, sensors |-> sensors, hw_raises |-> FALSE, hardware |-> hardware]

\* the WMI query raises
EnvDown == [raises |-> TRUE, sensors |-> <<>>, hw_raises |-> TRUE, hardware |-> <<>>]

\* the query answers, with no storage sensor in it
EnvEmpty == EnvOf(<< [Name |-> "CPU Core", SensorType |-> "Temperature",
                      Value |-> Some(55), Parent |-> Some("/intelcpu/0")] >>, <<>>)

\* one disk whose raw reading is raw
EnvOne(raw) == EnvOf(<< Sensor("Temperature", raw, "/hdd/0") >>, <<>>)

\* three disks: adjusted 25, 31 and 28
EnvThree == EnvOf(<< Sensor("Temperature", 38, "/hdd/0"),
                     Sensor("Temperature", 44, "/hdd/1"),
                     Sensor("Temperature", 41, "/nvme/0") >>, <<>>)

\* no sensor passes _is_storage_sensor; the hardware list names the disk
EnvAlt == EnvOf(<< Sensor("Temperature", 38, "WD Blue"),
                   Sensor("Temperature", 43, "WD Blue") >>, << "WD Blue" >>)

\* one disk the primary path finds and one only the alternative method finds
EnvMixed == EnvOf(<< Sensor("Temperature", 40, "/hdd/0"),
                     Sensor("Temperature", 45, "WD Blue") >>, << "WD Blue" >>)

\* raw readings that come out NORMAL (25), WARNING (28) and CRITICAL (31)
\* under the default thresholds
RawNormal == 38

RawWarning == 41

RawCritical == 44

(***************************************************************************)
(* Spec: the alert engine.  Poll cycles at chosen times, the alert         *)
(* buttons and a few threshold updates.                                    *)
(***************************************************************************)
\* how many times the buttons of the main window are pressed with effect
MaxUiOps == 2

\* the entries the handlers of the main window have logged
UiOps ==
    Cardinality({i \in 1..Len(log_buffer) :
                   log_buffer[i].text[1] \in {"Alert monitoring enabled",
                                              "Alert monitoring disabled",
                                              "Settings updated"}})

\* the moments, in seconds after Epoch, at which this specification looks at
\* the program: 10 s after the start, exactly one cooldown after it, and 35 s
\* after it
AlertTimes == {10, 30, 35}

AlertTicks == {d \in 1..35 : now + d - Epoch \in AlertTimes}

AlertEnvs == {EnvOne(RawNormal), EnvOne(RawWarning), EnvOne(RawCritical)}

Next ==
    \/ \E d \in AlertTicks : Tick(d)
    \/ \E e \in AlertEnvs : MonitorCycle(e, e, e)
    \/ UiOps < MaxUiOps /\ start_alert_monitoring
    \/ UiOps < MaxUiOps /\ stop_alert_monitoring
    \/ UiOps < MaxUiOps /\ update_settings("25", "27", FALSE)

Spec == Init /\ [][Next]_vars

(***************************************************************************)
(* Reading the root.after queue                                            *)
(***************************************************************************)
IsNotification(x) == x.fn = "send_desktop_notification"

IsDisplay(x) == x.fn = "update_display"

\* the notifications scheduled so far, in order
Notifications == SelectSeq(after_queue, IsNotification)

\* this step is a poll cycle: only monitor_temperature calls root.after
CycleStep == Len(after_queue') > Len(after_queue)

\* the update_display call of this step's cycle
NewDisplay == after_queue'[Len(after_queue) + 1]

\* this step's cycle scheduled a notification
Fired == Len(after_queue') = Len(after_queue) + 2

\* the time of the last notification scheduled before this step (None: none)
LastNotificationAt ==
    IF Notifications = <<>> THEN None ELSE Some(Notifications[Len(Notifications)].at)

\* the reading of this step's cycle is at or above a threshold
ReadingAtLeast(threshold) ==
    ~IsNone(NewDisplay.max_temp) /\ FGe(F(Val(NewDisplay.max_temp)), threshold)

\* C1 (state part): any two consecutive notifications scheduled by the
\* monitoring loop are more than warning_cooldown seconds apart.
C1_Apart ==
    \A i \in 1..(Len(Notifications) - 1) :
        Notifications[i + 1].at - Notifications[i].at > warning_cooldown

\* C1 (step part): with alerts enabled, a cycle whose reading is at or above
\* critical_temp schedules a notification exactly when no notification was
\* scheduled before or the last one is more than warning_cooldown seconds old.
C1_CriticalCycle ==
    (CycleStep /\ alert_monitoring_active /\ ReadingAtLeast(critical_temp))
        => (Fired <=> (IsNone(LastNotificationAt)
                       \/ now - Val(LastNotificationAt) > warning_cooldown))

\* C1: with alerts enabled and a cooldown of 30 s, of critical cycles 10 s
\* apart only the first notifies and one 35 s after the first notifies again;
\* consecutive notifications are always more than the cooldown apart.
C1_CooldownSpacing == []C1_Apart /\ [][C1_CriticalCycle]_vars

\* C1 witness: a notification, a critical cycle 10 s later that scheduled
\* none, and a second notification 35 s after the first.
C1_Witness ==
    \E i, j, k \in 1..Len(after_queue) :
        /\ i < j /\ j + 1 = k
        /\ IsNotification(after_queue[i])
        /\ IsDisplay(after_queue[j]) /\ after_queue[j].at = after_queue[i].at + 10
        /\ after_queue[j].max_temp = Some(RawCritical - PrimaryOffset)
        /\ IsDisplay(after_queue[k]) /\ after_queue[k].at = after_queue[i].at + 35
        /\ after_queue[k].max_temp = Some(RawCritical - PrimaryOffset)
        /\ k < Len(after_queue) /\ IsNotification(after_queue[k + 1])
        /\ Len(Notifications) = 2

\* C2: a poll cycle schedules a notification only if alert monitoring is
\* enabled, the reading is WARNING or CRITICAL (at or above a threshold) and
\* the time since last_warning_time is strictly more than the cooldown; a
\* step that schedules none leaves last_warning_time as it was.
C2_AlertGate ==
    [][ /\ (CycleStep /\ Fired) =>
             /\ alert_monitoring_active
             /\ (ReadingAtLeast(warning_temp) \/ ReadingAtLeast(critical_temp))
             /\ now - last_warning_time > warning_cooldown
        /\ ~(CycleStep /\ Fired) => last_warning_time' = last_warning_time ]_vars

\* C2 witness: all three refusals have happened -- a cycle with alerts off,
\* a NORMAL cycle and a cycle exactly warning_cooldown after an alert, none
\* of which scheduled a notification -- and one alert has fired.
C2_Witness ==
    /\ Len(Notifications) = 1
    /\ ~alert_monitoring_active
    /\ \E j \in 1..Len(after_queue) :
         /\ IsDisplay(after_queue[j])
         /\ after_queue[j].at = Notifications[1].at + warning_cooldown
         /\ after_queue[j].max_temp = Some(RawCritical - PrimaryOffset)
    /\ \E j \in 1..Len(after_queue) :
         /\ IsDisplay(after_queue[j])
         /\ after_queue[j].max_temp = Some(RawNormal - PrimaryOffset)
         /\ after_queue[j].at < Notifications[1].at + warning_cooldown
    /\ LET last == after_queue[Len(after_queue)]
       IN  /\ IsDisplay(last)
           /\ last.max_temp = Some(RawCritical - PrimaryOffset)
           /\ last.at > Notifications[1].at + warning_cooldown

\* C3: the cooldown is shared by both classes.  A cycle that schedules a
\* notification of either class sets last_warning_time to the time of the
\* cycle, and no WARNING or CRITICAL reading within warning_cooldown seconds
\* of the last notification, whatever its class, schedules another.
C3_GlobalCooldown ==
    [][ CycleStep =>
          /\ Fired => last_warning_time' = now
          /\ (~IsNone(LastNotificationAt)
              /\ now - Val(LastNotificationAt) <= warning_cooldown) => ~Fired ]_vars

\* C3 witness: a WARNING notification, then within the cooldown a CRITICAL
\* reading with alerts on that scheduled nothing.
C3_Witness ==
    /\ alert_monitoring_active
    /\ stop_button = "disabled"
    /\ Len(Notifications) = 1
    /\ Notifications[1].title = "HIGH STORAGE TEMPERATURE WARNING"
    /\ LET last == after_queue[Len(after_queue)]
       IN  /\ IsDisplay(last)
           /\ last.at = Notifications[1].at + 10
           /\ FGe(F(Val(last.max_temp)), critical_temp)

(***************************************************************************)
(* SpecSettings: the settings panel.  The user types any two of a few      *)
(* texts into the threshold boxes and presses Update; open() of the        *)
(* settings file may fail.                                                 *)
(***************************************************************************)
\* how many updates are accepted in one run
MaxSettingsOps == 2

\* texts typed into a threshold box: numerals, a text float() turns into a
\* NaN, and a text float() refuses
SettingsTexts == {"25", "30", "33", "nan", "abc"}

NextSettings ==
    \E w \in SettingsTexts, c \in SettingsTexts, io_fails \in BOOLEAN :
        UiOps < MaxSettingsOps /\ update_settings(w, c, io_fails)

SpecSettings == Init /\ [][NextSettings]_vars

\* the dialogs update_settings shows when it turns the input down
RejectionDialogs ==
    {"Warning temperature must be lower than critical temperature",
     "Please enter valid numbers for temperature thresholds"}

\* the input pairs C4 says are rejected: a field float() refuses, or two
\* numbers with warning >= critical
MustReject(w_text, c_text) ==
    \/ IsNone(ParseFloat(w_text))
    \/ IsNone(ParseFloat(c_text))
    \/ FGe(Val(ParseFloat(w_text)), Val(ParseFloat(c_text)))

\* C4: a call of update_settings whose input has warning >= critical, or a
\* field that is not a number, shows an error dialog and leaves warning_temp,
\* critical_temp and the settings file exactly as they were.
C4_RejectedKeepsConfig ==
    [][(last_op'.op = "update_settings" /\ MustReject(last_op'.w, last_op'.c))
         => /\ warning_temp' = warning_temp
            /\ critical_temp' = critical_temp
            /\ settings_file' = settings_file
            /\ messagebox' \in RejectionDialogs]_vars

\* warning=30, critical=25 was turned down after 25/33 had been accepted and
\* saved: the earlier configuration is still there
C4_Witness ==
    /\ last_op.op = "update_settings"
    /\ last_op.w = "30"
    /\ last_op.c = "25"
    /\ messagebox = "Warning temperature must be lower than critical temperature"
    /\ warning_temp = F(25)
    /\ critical_temp = F(33)
    /\ settings_file = Some([critical_temp |-> F(33), warning_temp |-> F(25)])

\* C5: after every completed update_settings call, accepted or rejected,
\* warning_temp < critical_temp holds.
C5_WarningBelowCritical == FLt(warning_temp, critical_temp)

(***************************************************************************)
(* SpecHistory: a long run of the monitoring loop.  Each cycle is followed *)
(* by its sleep; the disk reads NORMAL until it reads CRITICAL, and once   *)
(* in the run the source may answer without a storage sensor.              *)
(***************************************************************************)
\* how many poll cycles a run has: past the capacity of the history
MaxCycles == 52

\* the poll cycles made so far: each schedules one update_display
Cycles == Len(SelectSeq(after_queue, IsDisplay))

HistoryEnvs == {EnvOne(RawNormal), EnvOne(RawCritical), EnvEmpty}

\* the max temperature the source gives when it answers e
ReadingOf(e) == get_max_storage_temperature(TRUE, e).result

\* a "no data" entry has been logged
NoDataLogged ==
    \E i \in 1..Len(log_buffer) :
        log_buffer[i].text[1] = "No temperature data available from sensors"

\* the answers this specification lets the source give next: a reading not
\* below the last one recorded, or, once, no storage sensor (while the
\* history is still empty or when it is full)
Admissible(e) ==
    IF IsNone(ReadingOf(e))
    THEN ~NoDataLogged /\ Len(temp_history) \in {0, HistoryMaxLen}
    ELSE IF temp_history = <<>> THEN TRUE
    ELSE Val(ReadingOf(e)) >= temp_history[Len(temp_history)]

NextHistory ==
    \/ Cycles < MaxCycles /\ \E e \in HistoryEnvs : Admissible(e) /\ MonitorCycle(e, e, e)
    \/ now < wake_at /\ Tick(wake_at - now)

SpecHistory == Init /\ [][NextHistory]_vars

\* every (elapsed time, max temperature) pair the loop has appended, in the
\* order of the appends: the cycles that had a reading
Appended ==
    LET hasReading(x) == IsDisplay(x) /\ ~IsNone(x.max_temp)
    IN  SelectSeq(after_queue, hasReading)

\* C6: the history never holds more than 50 entries; it holds the latest
\* appended entries in the order they were appended, the oldest one leaving
\* at each append once 50 are held (after 51 appends: entries 2..51).
C6_HistoryFifo ==
    LET n == Len(Appended)
        k == IF n > 50 THEN 50 ELSE n
    IN  /\ Len(temp_history) = k
        /\ Len(time_history) = k
        /\ \A i \in 1..k :
             /\ temp_history[i] = Val(Appended[n - k + i].max_temp)
             /\ time_history[i] = Appended[n - k + i].current_time

\* 51 entries were appended, the first two at different temperatures and
\* times: the history starts at the second
C6_Witness ==
    /\ Len(Appended) = 51
    /\ Len(temp_history) = 50
    /\ Val(Appended[1].max_temp) # Val(Appended[2].max_temp)
    /\ time_history[1] = Appended[2].current_time
    /\ temp_history[1] = Val(Appended[2].max_temp)
    /\ time_history[50] = Appended[51].current_time

(***************************************************************************)
(* SpecLog: the log files.  The alert buttons log entries, writer threads  *)
(* put them into the daily files, midnights pass, and the user searches    *)
(* and exports date ranges.                                                *)
(***************************************************************************)
\* how many entries the buttons log in one run (one more is logged at start)
MaxLogOps == 2

\* how many midnights pass in one run
MaxMidnights == 2

\* the calendar dates of a run
LogDays == FirstDay..(FirstDay + MaxMidnights)

\* the date fields the user searches and exports with: the whole run, its
\* second day, a range that ends before it starts, a start strptime refuses
SearchRanges ==
    { <<Some(FirstDay), Some(FirstDay + MaxMidnights)>>,
      <<Some(FirstDay + 1), Some(FirstDay + 1)>>,
      <<Some(FirstDay + 1), Some(FirstDay)>>,
      <<None, Some(FirstDay)>> }

\* the search window is in use
Searching == last_op.op \in {"search_logs", "export_logs"}

\* every writer thread has written its entry
AllWritten == \A i \in 1..Len(writer_pc) : writer_pc[i] = "done"

\* A button is pressed when the entry before has reached its file; the user
\* opens the search window when the last entry of the run has, and nothing
\* more is logged while the window is in use.
NextLog ==
    \/ ~Searching /\ AllWritten /\ UiOps < MaxLogOps /\ start_alert_monitoring
    \/ ~Searching /\ AllWritten /\ UiOps < MaxLogOps /\ stop_alert_monitoring
    \/ ~Searching /\ today < FirstDay + MaxMidnights /\ Midnight
    \/ ~Searching /\ \E i \in 1..Len(log_buffer) : WriterBegin(i)
    \/ ~Searching /\ \E i \in 1..Len(log_buffer) : WriterOpen(i)
    \/ ~Searching /\ \E i \in 1..Len(log_buffer) : WriterWrite(i)
    \/ AllWritten /\ UiOps = MaxLogOps /\ \E r \in SearchRanges : search_logs(r[1], r[2])
    \/ AllWritten /\ UiOps = MaxLogOps /\
          \E r \in SearchRanges, io_fails \in BOOLEAN : export_logs(r[1], r[2], io_fails)

SpecLog == Init /\ [][NextLog]_vars

\* the entries in the daily file of date d, in file order (none: no file)
LinesOn(d) ==
    IF d \in DOMAIN files THEN [i \in 1..Len(files[d]) |-> files[d][i].text] ELSE <<>>

\* no date from start_date to end_date has a daily file
NothingWritten(start_date, end_date) ==
    \A d \in start_date..end_date : d \notin DOMAIN files

\* C7 (state part): for a date with no daily file the range query returns the
\* empty sequence, and an export of a range without lines returns False and
\* leaves Downloads as it is.
C7_EmptyRange ==
    \A start_date \in LogDays, end_date \in LogDays :
        NothingWritten(start_date, end_date) =>
            /\ get_logs_for_date_range(files, start_date, end_date) = <<>>
            /\ \A io_fails \in BOOLEAN :
                 export_logs_to_file(files, exports, start_date, end_date,
                                     today, now, io_fails)
                   = [ret |-> FALSE, exports |-> exports]

\* C7 (step part): pressing Export with date fields whose range has no daily
\* file creates and changes no export file and reports no success.
C7_ExportStep ==
    (/\ last_op'.op = "export_logs"
     /\ ~IsNone(last_op'.s)
     /\ ~IsNone(last_op'.e)
     /\ NothingWritten(Val(last_op'.s), Val(last_op'.e)))
    => /\ exports' = exports
       /\ messagebox' # "Logs exported successfully to Downloads folder!"

\* C7: a range query over a date on which nothing was written is empty, and
\* an export whose range yields no line returns False and writes no file.
C7_EmptyExport == []C7_EmptyRange /\ [][C7_ExportStep]_vars

\* Export was pressed for the second day, which has no file, after the whole
\* run had been searched and exported: the export failed and Downloads holds
\* the earlier export only
C7_Witness ==
    /\ last_op.op = "export_logs"
    /\ last_op.s = Some(FirstDay + 1)
    /\ last_op.e = Some(FirstDay + 1)
    /\ FirstDay + 1 \notin DOMAIN files
    /\ DOMAIN files # {}
    /\ current_logs # <<>>
    /\ messagebox = "Failed to export logs"
    /\ DOMAIN exports = {ExportFileName(FirstDay, FirstDay + MaxMidnights)}

\* the entries of the daily files from start_date to end_date, the latest
\* file last
RECURSIVE FilesInOrder(_, _)
FilesInOrder(start_date, end_date) ==
    IF end_date < start_date THEN <<>>
    ELSE FilesInOrder(start_date, end_date - 1) \o LinesOn(end_date)

\* C8 (state part): a range query returns the entries of the daily files of
\* the range, files in ascending date order, entries in file order, dates
\* without a file giving nothing; a one-day range gives that day's entries.
C8_RangeInOrder ==
    \A start_date \in LogDays, end_date \in LogDays :
        /\ get_logs_for_date_range(files, start_date, end_date)
             = FilesInOrder(start_date, end_date)
        /\ get_logs_for_date_range(files, start_date, start_date) = LinesOn(start_date)

\* C8 (step part): a search over a valid range shows exactly those entries.
C8_SearchStep ==
    (/\ last_op'.op = "search_logs"
     /\ ~IsNone(last_op'.s)
     /\ ~IsNone(last_op'.e)
     /\ Val(last_op'.s) <= Val(last_op'.e))
    => current_logs' = FilesInOrder(Val(last_op'.s), Val(last_op'.e))

\* C8: after entries were persisted for dates D1 < D2 < D3 the query (D1, D3)
\* returns the lines of the three files in date order and file order, the
\* query (D2, D2) exactly D2's lines, and dates without a file are skipped.
C8_RangeQuery == []C8_RangeInOrder /\ [][C8_SearchStep]_vars

\* the three days of the run each have a file and the whole run was searched:
\* the result is the three files one after the other
C8_Witness ==
    /\ last_op.op = "search_logs"
    /\ last_op.s = Some(FirstDay)
    /\ last_op.e = Some(FirstDay + MaxMidnights)
    /\ \A d \in LogDays : d \in DOMAIN files
    /\ current_logs = LinesOn(FirstDay) \o LinesOn(FirstDay + 1) \o LinesOn(FirstDay + 2)
    /\ Len(current_logs) >= 3

(***************************************************************************)
(* SpecSensor: the loop and the sensor source.  Each query of a cycle gets *)
(* its own answer from the source; a cycle is followed by its sleep.       *)
(***************************************************************************)
\* how many poll cycles a run has
MaxSensorCycles == 4

\* the answers the source gives to the three queries of one cycle: the same
\* answer to all three, or answers that change between the queries
SensorAnswers ==
    { <<EnvDown, EnvDown, EnvDown>>,
      <<EnvEmpty, EnvEmpty, EnvEmpty>>,
      <<EnvThree, EnvThree, EnvThree>>,
      <<EnvAlt, EnvAlt, EnvAlt>>,
      <<EnvOne(RawWarning), EnvOne(RawWarning), EnvOne(RawWarning)>>,
      <<EnvThree, EnvEmpty, EnvThree>>,
      <<EnvEmpty, EnvThree, EnvOne(RawCritical)>> }

NextSensor ==
    \/ Cycles < MaxSensorCycles /\ \E t \in SensorAnswers : MonitorCycle(t[1], t[2], t[3])
    \/ now < wake_at /\ Tick(wake_at - now)

SpecSensor == Init /\ [][NextSensor]_vars

\* this step is a poll cycle in which the source is unavailable to the max
\* query: the flag is down by then, or the answer holds no storage reading
UnavailableCycle ==
    /\ last_op'.op = "monitor_cycle"
    /\ CycleStep
    /\ IsNone(get_storage_temperatures(
                get_storage_temperatures(ohm_available, last_op'.e1).ohm_available,
                last_op'.e2).result)

\* the update_display calls made with no reading
UnavailableUpdates ==
    LET blank(x) == IsDisplay(x) /\ IsNone(x.max_temp) /\ IsNone(x.avg_temp)
    IN  SelectSeq(after_queue, blank)

\* the "no data" entries logged
NoDataEntries ==
    LET nodata(x) == x.text = <<"No temperature data available from sensors">>
    IN  SelectSeq(log_buffer, nodata)

\* C9 (step part): a poll cycle in which the source is unavailable schedules
\* exactly one update_display, with no reading in it, appends nothing to the
\* history and logs exactly one entry, the "no data" entry.
C9_UnavailableStep ==
    UnavailableCycle =>
        /\ Len(after_queue') = Len(after_queue) + 1
        /\ IsDisplay(NewDisplay)
        /\ IsNone(NewDisplay.max_temp)
        /\ IsNone(NewDisplay.avg_temp)
        /\ temp_history' = temp_history
        /\ time_history' = time_history
        /\ Len(log_buffer') = Len(log_buffer) + 1
        /\ log_buffer'[Len(log_buffer')].text
             = <<"No temperature data available from sensors">>

\* C9 (state part): there are as many "no data" entries as unavailable
\* updates, and the history holds one entry for each of the other cycles.
C9_Counts ==
    /\ Len(NoDataEntries) = Len(UnavailableUpdates)
    /\ Len(temp_history) = Cycles - Len(UnavailableUpdates)
    /\ Len(time_history) = Len(temp_history)

\* C9: every poll cycle in which the sensor source is unavailable gives
\* exactly one unavailable UI update, no history entry and exactly one
\* "no data" log entry; three such cycles give three, none and three.
C9_UnavailableCycle == []C9_Counts /\ [][C9_UnavailableStep]_vars

\* a cycle with a reading and then three cycles without: three unavailable
\* updates, three "no data" entries, the history as it was after the first
C9_Witness ==
    /\ Cycles = 4
    /\ Len(temp_history) = 1
    /\ Len(UnavailableUpdates) = 3
    /\ Len(NoDataEntries) = 3
    /\ \A i \in 2..4 : IsNone(SelectSeq(after_queue, IsDisplay)[i].max_temp)
    /\ last_op.op = "monitor_cycle"

\* the answers the reader's queries are examined on
SensorEnvs == {EnvDown, EnvEmpty, EnvThree, EnvAlt, EnvOne(RawWarning), EnvOne(RawCritical)}

\* the temperatures of a mapping device -> temperature
SampleValues(d) == {d[i][2] : i \in 1..Len(d)}

\* the largest of them
Largest(d) == CHOOSE v \in SampleValues(d) : \A u \in SampleValues(d) : u <= v

\* the sum of the temperatures of the first n devices
RECURSIVE TotalUpTo(_, _)
TotalUpTo(d, n) == IF n = 0 THEN 0 ELSE TotalUpTo(d, n - 1) + d[n][2]

\* what C10 says the queries return on a sample
ExpectedAverage(sample) ==
    IF IsNone(sample) \/ sample = Some(<<>>) THEN None
    ELSE Some([num |-> TotalUpTo(Val(sample), Len(Val(sample))),
               den |-> Cardinality(DictKeys(Val(sample)))])

ExpectedMax(sample) ==
    IF IsNone(sample) \/ sample = Some(<<>>) THEN None ELSE Some(Largest(Val(sample)))

\* device is a device of the sample that holds its largest temperature
IsHottest(sample, device) ==
    /\ ~IsNone(device)
    /\ DictHas(Val(sample), Val(device))
    /\ DictGet(Val(sample), Val(device)) = Largest(Val(sample))

\* C10 (queries): on the sample a query draws, the average query returns
\* sum / count, the max query the largest value and, as hottest device, a
\* device holding it; both return None when the sample is empty or the
\* source is unavailable.
C10_Queries ==
    \A e \in SensorEnvs, ohm \in BOOLEAN :
        LET sample == get_storage_temperatures(ohm, e).result
            avg == get_average_storage_temperature(ohm, e)
            max == get_max_storage_temperature(ohm, e)
        IN  /\ avg.result = ExpectedAverage(sample)
            /\ max.result = ExpectedMax(sample)
            /\ IF IsNone(ExpectedMax(sample)) THEN IsNone(max.device)
               ELSE IsHottest(sample, max.device)

\* the samples the max query and the average query of this step's cycle draw
MaxSample ==
    get_storage_temperatures(
        get_storage_temperatures(ohm_available, last_op'.e1).ohm_available,
        last_op'.e2).result

AvgSample ==
    get_storage_temperatures(
        get_max_storage_temperature(
            get_storage_temperatures(ohm_available, last_op'.e1).ohm_available,
            last_op'.e2).ohm_available,
        last_op'.e3).result

\* C10 (step part): a poll cycle whose max query has a reading passes on the
\* largest value of that sample and the average of the average query's
\* sample, and prints a device that holds the largest value.
C10_CycleStep ==
    (last_op'.op = "monitor_cycle" /\ CycleStep /\ ~IsNone(ExpectedMax(MaxSample)))
    => /\ NewDisplay.max_temp = ExpectedMax(MaxSample)
       /\ NewDisplay.avg_temp = ExpectedAverage(AvgSample)
       /\ ~IsNone(console')
       /\ IsHottest(MaxSample, Some(Val(console').device))
       /\ Val(console').temp = Largest(Val(MaxSample))

\* C10: for a non-empty mapping the average is sum / count, the max is the
\* largest value and the hottest device holds it ({25, 31, 28}: 28, 31 and
\* the second device); for an empty or unavailable sample both are None.
C10_Aggregates == []C10_Queries /\ [][C10_CycleStep]_vars

\* a cycle read 25, 31 and 28 from three disks: average 84 / 3 (that is 28),
\* max 31, hottest device the second disk
C10_Witness ==
    /\ last_op.op = "monitor_cycle"
    /\ storage_temperatures = Some(<< <<"/hdd/0", 25>>, <<"/hdd/1", 31>>, <<"/nvme/0", 28>> >>)
    /\ after_queue[Len(after_queue)].fn = "update_display"
    /\ after_queue[Len(after_queue)].max_temp = Some(31)
    /\ after_queue[Len(after_queue)].avg_temp = Some([num |-> 84, den |-> 3])
    /\ console = Some([device |-> "/hdd/1", temp |-> 31])

\* the answers the calibration of the reader is examined on
CalibrationEnvs ==
    {EnvEmpty, EnvThree, EnvAlt, EnvMixed, EnvOne(RawNormal), EnvOne(RawCritical)}

\* the constants a path might subtract
Offsets == 0..20

\* the primary path matches a storage sensor in answer e
PrimaryMatched(e) ==
    \E i \in 1..Len(e.sensors) :
        /\ e.sensors[i].SensorType = "Temperature"
        /\ ~IsNone(e.sensors[i].Value)
        /\ _is_storage_sensor(e.sensors[i].Name,
                              IF IsNone(e.sensors[i].Parent) THEN "Unknown"
                              ELSE Val(e.sensors[i].Parent))

\* every reading of mapping d is the raw value of a sensor of e, filed under
\* that sensor's device, minus k
AllCalibratedBy(d, e, k) ==
    \A j \in 1..Len(d) :
        \E i \in 1..Len(e.sensors) :
            /\ ~IsNone(e.sensors[i].Value)
            /\ d[j][1] \in {e.sensors[i].Name, Val(e.sensors[i].Parent)}
            /\ d[j][2] = Val(e.sensors[i].Value) - k

\* the mapping read from e is calibrated by kp when the primary path matched
\* and by kf when it did not
CalibratedSample(sample, e, kp, kf) ==
    IF IsNone(sample) THEN TRUE
    ELSE IF PrimaryMatched(e) THEN AllCalibratedBy(Val(sample), e, kp)
    ELSE AllCalibratedBy(Val(sample), e, kf)

\* C11 (reader): there is one constant for the primary path and one for the
\* fallback path such that every reading of every returned mapping is its
\* raw value minus the constant of the path that produced the mapping, the
\* fallback producing it only when the primary path matched no sensor.
C11_Reader ==
    \E kp \in Offsets, kf \in Offsets :
        \A e \in CalibrationEnvs :
            CalibratedSample(get_storage_temperatures(TRUE, e).result, e, kp, kf)

\* C11 (step part): the mapping a poll cycle stores is calibrated so.
C11_CycleStep ==
    (last_op'.op = "monitor_cycle" /\ CycleStep /\ ohm_available)
    => CalibratedSample(storage_temperatures', last_op'.e1, PrimaryOffset, AlternativeOffset)

\* C11: primary readings are raw minus one fixed constant, fallback readings
\* raw minus one fixed fallback constant, and no mapping mixes the two.
C11_Calibration == []C11_Reader /\ [][C11_CycleStep]_vars

\* a cycle on the primary path (raw 44 gave 31) and then a cycle on the
\* fallback path (raw 43 gave 33)
C11_Witness ==
    /\ last_op.op = "monitor_cycle"
    /\ last_op.e1 = EnvAlt
    /\ storage_temperatures = Some(<< <<"WD Blue", 33>> >>)
    /\ after_queue[1].max_temp = Some(31)

(***************************************************************************)
(* SpecWriters: the writer threads.  The buttons and the monitoring loop   *)
(* log entries, a midnight may pass, and the writer threads LogManager     *)
(* starts run in any interleaving.                                         *)
(***************************************************************************)
\* how many entries are logged in one run, the one of __init__ included
MaxWriterEntries == 3

NextWriters ==
    \/ Len(log_buffer) < MaxWriterEntries /\ start_alert_monitoring
    \/ Len(log_buffer) < MaxWriterEntries /\ stop_alert_monitoring
    \/ Len(log_buffer) < MaxWriterEntries /\ MonitorCycle(EnvEmpty, EnvEmpty, EnvEmpty)
    \/ now < wake_at /\ Tick(wake_at - now)
    \/ today = FirstDay /\ Midnight
    \/ \E i \in 1..Len(log_buffer) : WriterBegin(i)
    \/ \E i \in 1..Len(log_buffer) : WriterOpen(i)
    \/ \E i \in 1..Len(log_buffer) : WriterWrite(i)

SpecWriters == Init /\ [][NextWriters]_vars

\* C12: no two writer threads are inside the open-and-write step for the
\* same daily file at the same time.
C12_WritesSerialized ==
    \A i \in 1..Len(writer_pc), j \in 1..Len(writer_pc) :
        (i # j /\ writer_pc[i] = "writing" /\ writer_pc[j] = "writing")
            => writer_file[i] # writer_file[j]

(***************************************************************************)
(* SpecViewer: the live log view.  An entry is logged besides the one of   *)
(* __init__, a midnight may pass, the writer threads run in any            *)
(* interleaving and the viewer polls get_new_logs.                         *)
(***************************************************************************)
\* how many entries are logged in one run, the one of __init__ included
MaxViewerEntries == 2

NextViewer ==
    \/ Len(log_buffer) < MaxViewerEntries /\ start_alert_monitoring
    \/ today = FirstDay /\ Midnight
    \/ \E i \in 1..Len(log_buffer) : WriterBegin(i)
    \/ \E i \in 1..Len(log_buffer) : WriterOpen(i)
    \/ \E i \in 1..Len(log_buffer) : WriterWrite(i)
    \/ get_new_logs

SpecViewer == Init /\ [][NextViewer]_vars

\* how often x occurs in a sequence
Count(seq, x) == Cardinality({i \in 1..Len(seq) : seq[i] = x})

\* the lines persisted so far, file after file in date order
Persisted == FilesInOrder(FirstDay, FirstDay + 1)

\* C13: right after a get_new_logs call the cursor is the number of persisted
\* lines, and the calls so far have returned every persisted line exactly
\* once, none repeated and none skipped.
C13_EachLineOnce ==
    last_op.op = "get_new_logs" =>
        /\ last_log_index = Len(Persisted)
        /\ Len(live_log) = Len(Persisted)
        /\ \A i \in 1..Len(Persisted) : Count(live_log, Persisted[i]) = 1

(***************************************************************************)
(* SpecEmail: the email scheduler.  It checks every 30 s for a little over *)
(* one interval; the monitoring loop polls, and the test button is         *)
(* pressed, at the first two checks and one interval after the first.      *)
(***************************************************************************)
\* how many checks the scheduler makes in one run
MaxEmailChecks == 123

\* how many times Send Test Email is pressed in one run
MaxTestEmails == 1

\* the checks the scheduler has made
EmailChecks == (email_wake_at - Epoch) \div EmailPeriod

\* the send_email_report calls of the scheduler, and those of the test button
ScheduledAttempts ==
    LET scheduled(x) == x.scheduled
    IN  SelectSeq(email_log, scheduled)

TestEmails ==
    LET test(x) == ~x.scheduled
    IN  SelectSeq(email_log, test)

\* the moments, in seconds after Epoch, at which the monitoring loop polls
\* and the test button is pressed
EmailTimes == {0, EmailPeriod, email_interval}

AtEmailTime == (now - Epoch) \in EmailTimes

\* a disk at a normal temperature, or no storage sensor
EmailEnvs == {EnvOne(RawNormal), EnvEmpty}

NextEmail ==
    \/ EmailChecks < MaxEmailChecks /\
          \E e \in EmailEnvs, smtp_ok \in BOOLEAN : EmailCheck(e, smtp_ok)
    \/ now < email_wake_at /\ Tick(email_wake_at - now)
    \/ AtEmailTime /\ \E e \in EmailEnvs : MonitorCycle(e, e, e)
    \/ AtEmailTime /\ Len(TestEmails) < MaxTestEmails /\
          \E e \in EmailEnvs, smtp_ok \in BOOLEAN : send_test_email(e, smtp_ok)

SpecEmail == Init /\ [][NextEmail]_vars

EmailCheckStep == email_wake_at' # email_wake_at

\* C15: a scheduler check that attempts a report resets min_temp and
\* max_temp to their empty values, and a check that attempts none leaves
\* them as they were.
C15_ResetOnlyOnAttempt ==
    [][EmailCheckStep =>
          /\ last_op'.attempt => min_temp' = PosInf /\ max_temp' = NegInf
          /\ ~last_op'.attempt => UNCHANGED <<min_temp, max_temp>>]_vars

\* a step of send_test_email: it adds its send to the log of sends
TestEmailStep == last_op'.op = "send_test_email" /\ email_log' # email_log

\* C16: send_test_email leaves last_email_time, min_temp and max_temp as
\* they were, whether the test report is delivered or not.
C16_TestEmailFrame ==
    [][TestEmailStep => UNCHANGED <<last_email_time, min_temp, max_temp>>]_vars

\* a test email has just failed, after a scheduled report and with readings
\* in the digest window
C16_Witness ==
    /\ last_op.op = "send_test_email"
    /\ ~last_op.ok
    /\ Len(TestEmails) = 1
    /\ Len(ScheduledAttempts) = 1
    /\ last_email_time = ScheduledAttempts[1].at
    /\ min_temp # PosInf
    /\ max_temp # NegInf

(***************************************************************************)
(* The two loops' error handling and shutdown                              *)
(***************************************************************************)
\* a loop that an exception in its body ends
PcAfterExceptionFatal(pc) == "done"

\* `except Exception` sits inside `while self.is_monitoring`: the thread
\* stays in the loop
PcAfterException(pc) == pc

\* monitor_temperature: an iteration in which root.after(0, self.update_display, ...)
\* raises (RuntimeError: the main thread is not in its main loop).  The three
\* sensor queries and the min/max update have happened; the except branch
\* logs the error and sleeps 5 s.
MonitorCycleRaises(e1, e2, e3) ==
    LET r1 == get_storage_temperatures(ohm_available, e1)
        r2 == get_max_storage_temperature(r1.ohm_available, e2)
        r3 == get_average_storage_temperature(r2.ohm_available, e3)
        m == r2.result
    IN  /\ mon_pc = "loop"
        /\ is_monitoring
        /\ now >= wake_at
        /\ storage_temperatures' = r1.result
        /\ ohm_available' = r3.ohm_available
        /\ console' = IF IsNone(m) THEN console
                      ELSE Some([device |-> Val(r2.device), temp |-> Val(m)])
        /\ IF ~IsNone(m)
           THEN /\ min_temp' = IF FLt(F(Val(m)), min_temp) THEN F(Val(m)) ELSE min_temp
                /\ max_temp' = IF FGt(F(Val(m)), max_temp) THEN F(Val(m)) ELSE max_temp
           ELSE UNCHANGED <<min_temp, max_temp>>
        /\ LogTemperature(<< Entry("Error", 0, <<"Monitoring error", "RuntimeError">>) >>)
        /\ wake_at' = now + ErrorBackoff
        /\ mon_pc' = PcAfterException(mon_pc)
        /\ last_op' = [op |-> "monitor_error", e1 |-> e1, e2 |-> e2, e3 |-> e3]
        /\ UNCHANGED <<fineVars, envVars, viewerVars, emailVars, after_done, settingsVars, alertVars,
                       historyVars, start_time, refresh_rate_var, is_monitoring,
                       current_log_file, files, searchVars, buttonVars, after_queue,
                       messagebox>>

\* monitor_temperature: the while test finds is_monitoring false
MonitorExit ==
    /\ mon_pc = "loop"
    /\ ~is_monitoring
    /\ now >= wake_at
    /\ mon_pc' = "done"
    /\ last_op' = [op |-> "monitor_exit"]
    /\ UNCHANGED <<fineVars, envVars, viewerVars, emailVars, after_done, settingsVars, alertVars,
                   historyVars, digestVars, ohm_available, storage_temperatures,
                   start_time, wake_at, refresh_rate_var, is_monitoring,
                   logVars, searchVars, buttonVars, after_queue, messagebox, console>>

\* email_scheduler: the while test finds is_monitoring false
EmailExit ==
    /\ email_pc = "loop"
    /\ ~is_monitoring
    /\ now >= email_wake_at
    /\ email_pc' = "done"
    /\ last_op' = [op |-> "email_exit"]
    /\ UNCHANGED <<fineVars, envVars, viewerVars, last_email_time, email_wake_at, email_log,
                   after_done, settingsVars, alertVars, historyVars, digestVars,
                   monitorVars, logVars, searchVars, buttonVars, after_queue,
                   messagebox, console>>

\* The user closes the main window.
on_closing(io_fails) ==
    /\ is_monitoring
    /\ is_monitoring' = FALSE
    /\ LogTemperature(<< Entry("System", "N/A", <<"Storage Temperature Monitor shutting down">>) >>)
    /\ settings_file' = save_settings(settings_file, warning_temp, critical_temp, io_fails)
    /\ last_op' = [op |-> "on_closing"]
    /\ UNCHANGED <<fineVars, envVars, viewerVars, emailVars, after_done, warning_temp, critical_temp,
                   warning_var, critical_var, alertVars, historyVars, digestVars,
                   ohm_available, storage_temperatures, mon_pc, start_time, wake_at,
                   refresh_rate_var, current_log_file, files, searchVars, buttonVars,
                   after_queue, messagebox, console>>

\* the interpreter has exited
Exited == last_op.op = "process_exit"

\* root.destroy() ends root.mainloop(), main() returns and the interpreter
\* exits: threads started with daemon=True are stopped where they are.
ProcessExit ==
    /\ ~is_monitoring
    /\ ~Exited
    /\ mon_pc' = IF mon_pc = "loop" THEN "killed" ELSE mon_pc
    /\ email_pc' = IF email_pc = "loop" THEN "killed" ELSE email_pc
    /\ last_op' = [op |-> "process_exit"]
    /\ UNCHANGED <<fineVars, envVars, viewerVars, last_email_time, email_wake_at, email_log,
                   after_done, settingsVars, alertVars, historyVars, digestVars,
                   ohm_available, storage_temperatures, start_time, wake_at,
                   refresh_rate_var, is_monitoring, logVars, searchVars, buttonVars,
                   after_queue, messagebox, console>>

(***************************************************************************)
(* SpecLoops: the monitoring loop with failing iterations, the email       *)
(* scheduler, and the shutdown of both.                                    *)
(***************************************************************************)
\* the monitoring loop starts no iteration once its sleeps reach this many
\* seconds after Epoch
MaxLoopSeconds == 6

\* how many checks the email scheduler makes in one run
MaxLoopEmailChecks == 2

\* the ends of the sleeps of the threads still in their loops
WakeTimes ==
    (IF mon_pc = "loop" THEN {wake_at} ELSE {}) \cup
    (IF email_pc = "loop" THEN {email_wake_at} ELSE {})

LaterWakeTimes == {t \in WakeTimes : t > now}

\* time passes until the next sleep ends
LoopTick ==
    /\ LaterWakeTimes # {}
    /\ Tick((CHOOSE t \in LaterWakeTimes : \A u \in LaterWakeTimes : t <= u) - now)

NextLoops ==
    \/ wake_at - Epoch < MaxLoopSeconds /\
          \E e \in EmailEnvs : MonitorCycle(e, e, e)
    \/ wake_at - Epoch < MaxLoopSeconds /\
          \E e \in EmailEnvs : MonitorCycleRaises(e, e, e)
    \/ EmailChecks < MaxLoopEmailChecks /\
          \E smtp_ok \in BOOLEAN : EmailCheck(EnvOne(RawNormal), smtp_ok)
    \/ ~Exited /\ LoopTick
    \/ \E io_fails \in BOOLEAN : on_closing(io_fails)
    \/ MonitorExit
    \/ EmailExit
    \/ ProcessExit

SpecLoops == Init /\ [][NextLoops]_vars

\* an iteration of the monitoring loop that ended in the except branch
MonitorErrorStep == last_op'.op = "monitor_error" /\ log_buffer' # log_buffer

\* C17: an iteration of the monitoring loop that raises logs one error
\* entry, sleeps 5 s and leaves the thread in its loop; and while
\* is_monitoring is true the thread is in its loop.
C17_LoopSurvives ==
    /\ [](is_monitoring => mon_pc = "loop")
    /\ [][MonitorErrorStep =>
             /\ Len(log_buffer') = Len(log_buffer) + 1
             /\ log_buffer'[Len(log_buffer')].text[1] = "Monitoring error"
             /\ wake_at' = now + ErrorBackoff
             /\ mon_pc' = "loop"]_vars

\* an iteration raised, and the next iteration has just run at the end of
\* the 5 s back-off
C17_Witness ==
    /\ last_op.op = "monitor_cycle"
    /\ is_monitoring
    /\ mon_pc = "loop"
    /\ \E i \in 1..Len(log_buffer) :
          /\ log_buffer[i].text[1] = "Monitoring error"
          /\ log_buffer[i].time + ErrorBackoff = now

\* SpecLoops under fair scheduling: time passes, and a thread whose sleep
\* has ended gets to make its while test.
SpecLoopsFair ==
    /\ SpecLoops
    /\ WF_vars(~Exited /\ LoopTick)
    /\ WF_vars(MonitorExit)
    /\ WF_vars(EmailExit)

\* a step of one of the two loops' bodies
MonitorIterationStep ==
    last_op'.op \in {"monitor_cycle", "monitor_error"} /\ wake_at' # wake_at

\* C18: once on_closing has set is_monitoring false, both loops eventually
\* are done; a loop starts an iteration only while it is in the loop and the
\* flag is true; and a loop leaves its loop only by finding the flag false
\* at its own while test.
C18_CooperativeStop ==
    /\ ~is_monitoring ~> (mon_pc = "done" /\ email_pc = "done")
    /\ [][MonitorIterationStep => mon_pc = "loop" /\ is_monitoring]_vars
    /\ [][EmailCheckStep => email_pc = "loop" /\ is_monitoring]_vars
    /\ [][mon_pc' # mon_pc =>
             mon_pc' = "done" /\ ~is_monitoring /\ last_op'.op = "monitor_exit"]_vars
    /\ [][email_pc' # email_pc =>
             email_pc' = "done" /\ ~is_monitoring /\ last_op'.op = "email_exit"]_vars

(***************************************************************************)
(* The main loop runs the root.after callbacks                             *)
(***************************************************************************)
\* a notification callback that looks at the alert switch before notifying
NotifyDeliversIfActive(active, notify_ok) == active /\ notify_ok

\* send_desktop_notification calls notification.notify whatever the alert
\* switch says; notify_ok: the call does not raise
NotifyDelivers(active, notify_ok) == notify_ok

\* Tk runs the next callback scheduled with root.after(0, ...):
\* update_display (labels only) or send_desktop_notification, which logs an
\* "Alert" entry once notification.notify has returned.
RunAfter(notify_ok) ==
    /\ after_done < Len(after_queue)
    /\ LET cb == after_queue[after_done + 1]
       IN  /\ IF IsNotification(cb) /\ NotifyDelivers(alert_monitoring_active, notify_ok)
              THEN LogTemperature(<< Entry("Alert", cb.temp, <<"Alert", cb.title>>) >>)
              ELSE UNCHANGED <<log_buffer, writer_pc, writer_file>>
           /\ last_op' = [op |-> "after", fn |-> cb.fn,
                          notify_ok |-> IsNotification(cb) /\ notify_ok]
    /\ after_done' = after_done + 1
    /\ UNCHANGED <<fineVars, envVars, viewerVars, emailVars, settingsVars, alertVars, historyVars,
                   digestVars, monitorVars, current_log_file, files, searchVars,
                   buttonVars, after_queue, messagebox, console>>

(***************************************************************************)
(* SpecToggle: the alert switch, the poll cycles and the delivery of the   *)
(* scheduled notifications.                                                *)
(***************************************************************************)
\* how many times an alert button is pressed in one run
MaxToggles == 3

\* poll cycles happen at Epoch and at these times after it, each more than
\* the cooldown after the one before
ToggleTimes == {warning_cooldown + 1, 2 * warning_cooldown + 2}

ToggleTicks == {d \in 1..(warning_cooldown + 1) : now + d - Epoch \in ToggleTimes}

ToggleEnvs == {EnvOne(RawNormal), EnvOne(RawCritical)}

NextToggle ==
    \/ \E d \in ToggleTicks : Tick(d)
    \/ \E e \in ToggleEnvs : MonitorCycle(e, e, e)
    \/ UiOps < MaxToggles /\ start_alert_monitoring
    \/ UiOps < MaxToggles /\ stop_alert_monitoring
    \/ \E notify_ok \in BOOLEAN : RunAfter(notify_ok)

SpecToggle == Init /\ [][NextToggle]_vars

IsToggleEntry(x) ==
    x.text[1] \in {"Alert monitoring enabled", "Alert monitoring disabled"}

\* the entries the two toggles have logged, in call order
ToggleEntries == SelectSeq(log_buffer, IsToggleEntry)

\* the last toggle called was stop_alert_monitoring / start_alert_monitoring
AlertsStopped ==
    /\ ToggleEntries # <<>>
    /\ ToggleEntries[Len(ToggleEntries)].text[1] = "Alert monitoring disabled"

AlertsStarted ==
    /\ ToggleEntries # <<>>
    /\ ToggleEntries[Len(ToggleEntries)].text[1] = "Alert monitoring enabled"

\* a call of one of the two toggles
ToggleStep ==
    /\ last_op'.op \in {"start_alert_monitoring", "stop_alert_monitoring"}
    /\ log_buffer' # log_buffer

\* the main loop runs the callback of a scheduled notification
NotificationStep ==
    /\ after_done' = after_done + 1
    /\ IsNotification(after_queue[after_done + 1])

\* the step appends one "Alert" entry to the log
AlertLogged ==
    /\ Len(log_buffer') = Len(log_buffer) + 1
    /\ log_buffer'[Len(log_buffer')].text[1] = "Alert"

\* C19: a poll cycle made after stop_alert_monitoring and before the next
\* start_alert_monitoring schedules no notification; a toggle leaves the
\* scheduled callbacks and the cooldown clock as they are, and a scheduled
\* notification is delivered when its callback runs, whatever the switch
\* says by then; a cycle made after start_alert_monitoring with a reading at
\* or above warning_temp and the cooldown elapsed schedules a notification.
C19_ToggleNextCycle ==
    /\ [][CycleStep /\ AlertsStopped => ~Fired]_vars
    /\ [][ToggleStep => UNCHANGED <<after_queue, after_done, last_warning_time>>]_vars
    /\ [][NotificationStep /\ last_op'.notify_ok => AlertLogged]_vars
    /\ [][CycleStep /\ AlertsStarted /\ ReadingAtLeast(warning_temp)
              /\ CooldownElapsed(now, last_warning_time) => Fired]_vars

\* a critical cycle notified; alerts were stopped and the notification was
\* delivered after that; a critical cycle with the cooldown elapsed then
\* scheduled nothing; alerts were started again and the next critical cycle
\* notified.
C19_Witness ==
    /\ Len(after_queue) = 5
    /\ IsNotification(after_queue[2])
    /\ IsDisplay(after_queue[3])
    /\ after_queue[3].max_temp = Some(RawCritical - PrimaryOffset)
    /\ after_queue[3].at > after_queue[2].at + warning_cooldown
    /\ IsDisplay(after_queue[4])
    /\ IsNotification(after_queue[5])
    /\ \E i, j, k \in 1..Len(log_buffer) :
          /\ i < j /\ j < k
          /\ log_buffer[i].text[1] = "Alert monitoring disabled"
          /\ log_buffer[j].text[1] = "Alert"
          /\ log_buffer[j].time < after_queue[3].at
          /\ log_buffer[k].text[1] = "Alert monitoring enabled"
          /\ log_buffer[k].time = after_queue[3].at

(***************************************************************************)
(* SpecIdem: the two toggles as methods, called in any order and any       *)
(* number of times in a row, whatever the buttons show.                    *)
(***************************************************************************)
\* the method start_alert_monitoring, without the button in front of it
StartAlertsCall ==
    /\ alert_monitoring_active' = TRUE
    /\ start_button' = "disabled"
    /\ stop_button' = "normal"
    /\ LogTemperature(<< Entry("System", 0, <<"Alert monitoring enabled">>) >>)
    /\ messagebox' = "Alerts Enabled"
    /\ last_op' = [op |-> "start_alert_monitoring"]
    /\ UNCHANGED <<fineVars, envVars, viewerVars, emailVars, after_done, settingsVars,
                   last_warning_time, historyVars, digestVars,
                   monitorVars, current_log_file, files, searchVars, after_queue, console>>

\* the method stop_alert_monitoring, without the button in front of it
StopAlertsCall ==
    /\ alert_monitoring_active' = FALSE
    /\ start_button' = "normal"
    /\ stop_button' = "disabled"
    /\ LogTemperature(<< Entry("System", 0, <<"Alert monitoring disabled">>) >>)
    /\ messagebox' = "Alerts Disabled"
    /\ last_op' = [op |-> "stop_alert_monitoring"]
    /\ UNCHANGED <<fineVars, envVars, viewerVars, emailVars, after_done, settingsVars,
                   last_warning_time, historyVars, digestVars,
                   monitorVars, current_log_file, files, searchVars, after_queue, console>>

\* how many toggle calls one run makes
MaxIdemCalls == 3

\* A toggle is called when every entry logged before has reached its file;
\* one critical poll cycle may come first, so that last_warning_time is set.
NextIdem ==
    \/ AllWritten /\ Len(ToggleEntries) < MaxIdemCalls /\ StartAlertsCall
    \/ AllWritten /\ Len(ToggleEntries) < MaxIdemCalls /\ StopAlertsCall
    \/ Cycles = 0 /\ ToggleEntries = <<>> /\
          MonitorCycle(EnvOne(RawCritical), EnvOne(RawCritical), EnvOne(RawCritical))
    \/ \E i \in 1..Len(log_buffer) : WriterBegin(i)
    \/ \E i \in 1..Len(log_buffer) : WriterOpen(i)
    \/ \E i \in 1..Len(log_buffer) : WriterWrite(i)

SpecIdem == Init /\ [][NextIdem]_vars

\* the toggle lines in the daily file, in file order
PersistedToggles == SelectSeq(LinesOn(FirstDay), IsToggleEntry)

\* this step calls the toggle that was also the last one called
RepeatedToggle ==
    /\ ToggleStep
    /\ ToggleEntries # <<>>
    /\ ToggleEntries[Len(ToggleEntries)].text = log_buffer'[Len(log_buffer')].text

\* C20: calling the same toggle a second time in a row changes neither
\* alert_monitoring_active nor last_warning_time, and adds nothing to the
\* persisted log: the daily file never holds the line of the same toggle
\* twice in a row.
C20_TogglesIdempotent ==
    /\ [][RepeatedToggle =>
             UNCHANGED <<alert_monitoring_active, last_warning_time>>]_vars
    /\ [](AllWritten =>
             \A i \in 1..(Len(PersistedToggles) - 1) :
                 PersistedToggles[i].text # PersistedToggles[i + 1].text)

(***************************************************************************)
(* Recovery of the sensor source                                           *)
(***************************************************************************)
\* the source answers e with at least one storage reading when it is asked
Recovered(e) == ~IsNone(get_max_storage_temperature(TRUE, e).result)

\* the poll before this step had no reading
LastPollHadNoData ==
    /\ after_queue # <<>>
    /\ IsDisplay(after_queue[Len(after_queue)])
    /\ IsNone(after_queue[Len(after_queue)].max_temp)

\* C21: a poll that follows a poll without data queries the source again:
\* when the source answers all its queries with storage readings, the cycle
\* has a reading.
C21_RetriedNextPoll ==
    [][(CycleStep /\ last_op'.op = "monitor_cycle" /\ LastPollHadNoData
          /\ Recovered(last_op'.e1) /\ Recovered(last_op'.e2) /\ Recovered(last_op'.e3))
       => ~IsNone(NewDisplay.max_temp)]_vars

\* C22: once the calendar date is past D, no step creates or appends to the
\* daily file of D.
C22_NoWriteAfterDayEnds ==
    [][\A d \in DOMAIN files' :
          d < today => d \in DOMAIN files /\ files'[d] = files[d]]_vars

(***************************************************************************)
(* SpecLoad: start-up over a settings file left by an earlier run or by    *)
(* anyone else.                                                            *)
(***************************************************************************)
\* a stored value: a number the program could have saved, or NaN, which
\* json.dump writes and json.load reads back
StoredValues == {F(25), F(27), F(30), F(33), NaN}

\* the JSON objects over the two keys: each key missing or holding a value
SettingsObjects ==
    { <<>> }
    \cup { [critical_temp |-> c] : c \in StoredValues }
    \cup { [warning_temp |-> w] : w \in StoredValues }
    \cup { [critical_temp |-> c, warning_temp |-> w] : c \in StoredValues, w \in StoredValues }

\* what the file may hold: nothing (absent), text that is no JSON, a JSON
\* array, or a JSON object
SettingsFileContents ==
    {None, Some([kind |-> "text"]), Some([kind |-> "array"])}
    \cup {Some(o) : o \in SettingsObjects}

\* the file is absent or json.load raises on it
AbsentOrUnparseable(file) ==
    IsNone(file) \/ Val(file) = [kind |-> "text"]

\* load_settings: the thresholds afterwards.  No file: nothing happens.
\* json.load raising, or settings.get raising on something that is no
\* object, is caught and nothing is assigned.  An object gives both
\* thresholds, each from its key or from the .get default.
LoadSettings(file, w, c) ==
    IF IsNone(file) \/ "kind" \in DOMAIN Val(file) THEN [warning_temp |-> w, critical_temp |-> c]
    ELSE [critical_temp |-> IF "critical_temp" \in DOMAIN Val(file)
                            THEN Val(file).critical_temp ELSE F(DefaultCritical),
          warning_temp |-> IF "warning_temp" \in DOMAIN Val(file)
                           THEN Val(file).warning_temp ELSE F(DefaultWarning)]

\* __init__ up to the call of load_settings: the defaults are assigned
InitLoad ==
    /\ now = Epoch
    /\ today = FirstDay
    /\ ohm_available = TRUE
    /\ warning_temp = F(DefaultWarning)
    /\ critical_temp = F(DefaultCritical)
    /\ settings_file \in SettingsFileContents
    /\ warning_var = "27"
    /\ critical_var = "30"
    /\ refresh_rate_var = "2"
    /\ messagebox = ""
    /\ start_button = "normal"
    /\ stop_button = "disabled"
    /\ is_monitoring = TRUE
    /\ alert_monitoring_active = TRUE
    /\ last_warning_time = 0
    /\ temp_history = <<>>
    /\ time_history = <<>>
    /\ min_temp = PosInf
    /\ max_temp = NegInf
    /\ storage_temperatures = Some(<<>>)
    /\ mon_pc = "loop"
    /\ start_time = Epoch
    /\ wake_at = Epoch
    /\ after_queue = <<>>
    /\ log_buffer = << LogEntry(FirstDay, Epoch, "System", "N/A",
                                <<"Storage Temperature Monitor started - logging initialized">>) >>
    /\ writer_pc = << "start" >>
    /\ writer_file = << None >>
    /\ last_log_index = 0
    /\ live_log = <<>>
    /\ log_text = None
    /\ last_email_time = 0
    /\ email_pc = "loop"
    /\ email_wake_at = Epoch
    /\ email_log = <<>>
    /\ after_done = 0
    /\ ui_pc = "idle"
    /\ mon_locals = None
    /\ current_log_file = FirstDay
    /\ files = << >>
    /\ exports = << >>
    /\ date_vars = <<Some(FirstDay), Some(FirstDay)>>
    /\ current_logs = <<>>
    /\ console = None
    /\ last_op = [op |-> "__init__.begin"]

\* __init__ calls load_settings
load_settings ==
    /\ last_op.op = "__init__.begin"
    /\ warning_temp' = LoadSettings(settings_file, warning_temp, critical_temp).warning_temp
    /\ critical_temp' = LoadSettings(settings_file, warning_temp, critical_temp).critical_temp
    /\ last_op' = [op |-> "load_settings"]
    /\ UNCHANGED <<fineVars, envVars, viewerVars, emailVars, after_done, settings_file, warning_var,
                   critical_var, alertVars, historyVars, digestVars, monitorVars, logVars,
                   searchVars, buttonVars, after_queue, messagebox, console>>

\* the poll cycles made after start-up
MaxLoadCycles == 2

NextLoad ==
    \/ load_settings
    \/ last_op.op # "__init__.begin" /\ Cycles < MaxLoadCycles /\
          \E e \in AlertEnvs : MonitorCycle(e, e, e)
    \/ last_op.op # "__init__.begin" /\ now < wake_at /\ Tick(wake_at - now)

SpecLoad == InitLoad /\ [][NextLoad]_vars

\* C23: right after load_settings the thresholds satisfy
\* warning_temp < critical_temp, and they are the defaults 27 and 30 when
\* the file is absent or unparseable.
C23_LoadedValid ==
    last_op.op = "load_settings" =>
        /\ FLt(warning_temp, critical_temp)
        /\ AbsentOrUnparseable(settings_file) =>
               warning_temp = F(DefaultWarning) /\ critical_temp = F(DefaultCritical)

(***************************************************************************)
(* update_settings statement by statement.  The handler runs on the main   *)
(* thread; the monitor thread may run between any two of its statements.   *)
(***************************************************************************)
\* update_settings with texts it accepts, up to and including
\* self.warning_temp = new_warning
UpdateSettingsWarning(w_text, c_text) ==
    LET new_warning == ParseFloat(w_text)
        new_critical == ParseFloat(c_text)
    IN  /\ ui_pc = "idle"
        /\ ~IsNone(new_warning)
        /\ ~IsNone(new_critical)
        /\ ~RejectsPair(Val(new_warning), Val(new_critical))
        /\ warning_var' = w_text
        /\ critical_var' = c_text
        /\ warning_temp' = Val(new_warning)
        /\ ui_pc' = "update_settings.critical"
        /\ last_op' = [op |-> "update_settings.warning", w |-> w_text, c |-> c_text]
        /\ UNCHANGED <<mon_locals, envVars, viewerVars, emailVars, after_done, critical_temp,
                       settings_file, alertVars, historyVars, digestVars, monitorVars,
                       logVars, searchVars, buttonVars, after_queue, messagebox, console>>

\* update_settings from self.critical_temp = new_critical to its end
UpdateSettingsCritical(io_fails) ==
    LET new_warning == ParseFloat(warning_var)
        new_critical == ParseFloat(critical_var)
    IN  /\ ui_pc = "update_settings.critical"
        /\ critical_temp' = Val(new_critical)
        /\ settings_file' = save_settings(settings_file, warning_temp, Val(new_critical),
                                          io_fails)
        /\ LogTemperature(<< Entry("System", 0,
                                   <<"Settings updated", Val(new_warning),
                                     Val(new_critical)>>) >>)
        /\ messagebox' = "Temperature settings updated successfully"
        /\ ui_pc' = "idle"
        /\ last_op' = [op |-> "update_settings", w |-> warning_var, c |-> critical_var]
        /\ UNCHANGED <<mon_locals, envVars, viewerVars, emailVars, after_done, warning_temp,
                       warning_var, critical_var, alertVars, historyVars, digestVars,
                       monitorVars, current_log_file, files, searchVars, buttonVars,
                       after_queue, console>>

(***************************************************************************)
(* SpecRace: accepted threshold updates with the monitoring loop running.  *)
(***************************************************************************)
\* how many updates one run starts
MaxRaceUpdates == 2

\* how many poll cycles one run makes
MaxRaceCycles == 2

IsSettingsEntry(x) == x.text[1] = "Settings updated"

\* the entries of the updates that ran to their end
SettingsEntries == SelectSeq(log_buffer, IsSettingsEntry)

\* the updates started so far
RaceUpdates == Len(SettingsEntries) + (IF ui_pc = "idle" THEN 0 ELSE 1)

\* pairs of texts update_settings accepts
RaceTexts == {<<"25", "27">>, <<"30", "33">>}

NextRace ==
    \/ RaceUpdates < MaxRaceUpdates /\
          \E t \in RaceTexts : UpdateSettingsWarning(t[1], t[2])
    \/ \E io_fails \in BOOLEAN : UpdateSettingsCritical(io_fails)
    \/ Cycles < MaxRaceCycles /\ \E e \in AlertEnvs : MonitorCycle(e, e, e)
    \/ now < wake_at /\ Tick(wake_at - now)

SpecRace == Init /\ [][NextRace]_vars

\* the pair in force before the update now running, or in force now: that
\* of the last update that ran to its end, or the defaults
OldPair ==
    IF SettingsEntries = <<>> THEN <<F(DefaultWarning), F(DefaultCritical)>>
    ELSE <<SettingsEntries[Len(SettingsEntries)].text[2],
           SettingsEntries[Len(SettingsEntries)].text[3]>>

\* the pair the update now running is applying
NewPair == <<Val(ParseFloat(warning_var)), Val(ParseFloat(critical_var))>>

\* C24: the pair of thresholds a poll cycle reads has
\* warning_temp < critical_temp, and while an accepted update is being
\* applied it is the pair from before the update or the pair of the update.
C24_NoTornThresholds ==
    [][(CycleStep /\ last_op'.op = "monitor_cycle") =>
          /\ FLt(warning_temp, critical_temp)
          /\ ui_pc # "idle" => <<warning_temp, critical_temp>> \in {OldPair, NewPair}]_vars

(***************************************************************************)
(* monitor_temperature statement by statement, for an iteration that has   *)
(* a reading.  The three steps together are MonitorCycle; other threads    *)
(* may run between them.                                                   *)
(***************************************************************************)
\* the sensor queries and the first statement of the min/max update:
\* if max_temp < self.min_temp: self.min_temp = max_temp
MonitorPollMin(e1, e2, e3) ==
    LET r1 == get_storage_temperatures(ohm_available, e1)
        r2 == get_max_storage_temperature(r1.ohm_available, e2)
        r3 == get_average_storage_temperature(r2.ohm_available, e3)
        m == r2.result
    IN  /\ mon_pc = "loop"
        /\ is_monitoring
        /\ now >= wake_at
        /\ ~IsNone(m)
        /\ storage_temperatures' = r1.result
        /\ ohm_available' = r3.ohm_available
        /\ console' = Some([device |-> Val(r2.device), temp |-> Val(m)])
        /\ min_temp' = IF FLt(F(Val(m)), min_temp) THEN F(Val(m)) ELSE min_temp
        /\ mon_locals' = Some([max_temp |-> Val(m), avg_temp |-> r3.result,
                               current_time |-> now - start_time])
        /\ mon_pc' = "max_update"
        /\ last_op' = [op |-> "monitor_cycle.min", e1 |-> e1, e2 |-> e2, e3 |-> e3]
        /\ UNCHANGED <<ui_pc, envVars, viewerVars, emailVars, after_done, settingsVars,
                       alertVars, historyVars, max_temp, start_time, wake_at,
                       refresh_rate_var, is_monitoring, logVars, searchVars, buttonVars,
                       after_queue, messagebox>>

\* if max_temp > self.max_temp: self.max_temp = max_temp; the update_display
\* call; self.temp_history.append(max_temp)
MonitorPollMax ==
    LET l == Val(mon_locals)
    IN  /\ mon_pc = "max_update"
        /\ max_temp' = IF FGt(F(l.max_temp), max_temp) THEN F(l.max_temp) ELSE max_temp
        /\ after_queue' = Append(after_queue,
                                 DisplayUpdate(Some(l.max_temp), l.avg_temp,
                                               l.current_time, now))
        /\ temp_history' = DequeAppend(temp_history, l.max_temp)
        /\ mon_pc' = "time_append"
        /\ last_op' = [op |-> "monitor_cycle.max"]
        /\ UNCHANGED <<fineVars, envVars, viewerVars, emailVars, after_done, settingsVars,
                       alertVars, time_history, min_temp, ohm_available,
                       storage_temperatures, start_time, wake_at, refresh_rate_var,
                       is_monitoring, logVars, searchVars, buttonVars, messagebox, console>>

\* self.time_history.append(current_time), the log entries, the alert check
\* and the sleep
MonitorPollEnd ==
    LET l == Val(mon_locals)
        m == l.max_temp
        a == l.avg_temp
        fires == AlertFires(alert_monitoring_active, m, warning_temp, critical_temp,
                            now, last_warning_time)
        delay == RefreshDelay(refresh_rate_var)
    IN  /\ mon_pc = "time_append"
        /\ time_history' = DequeAppend(time_history, l.current_time)
        /\ LogTemperature(
             (IF ~IsNone(a) THEN << Entry("Average Temperature", Val(a), <<>>) >>
              ELSE <<>>)
             \o << Entry("Max Temperature", m, <<>>) >>
             \o (IF Truthy(storage_temperatures)
                 THEN << Entry("Storage Details", 0,
                               <<"Storage temperatures", Val(storage_temperatures)>>) >>
                 ELSE <<>>)
             \o (IF IsNone(delay)
                 THEN << Entry("Error", 0, <<"Monitoring error", "OverflowError">>) >>
                 ELSE <<>>))
        /\ after_queue' = after_queue \o
             (IF fires THEN << Notification(m, warning_temp, critical_temp, now) >>
              ELSE <<>>)
        /\ last_warning_time' = LastWarningTimeAfter(fires, m, warning_temp, critical_temp,
                                                     now, last_warning_time)
        /\ wake_at' = now + (IF IsNone(delay) THEN ErrorBackoff ELSE Val(delay))
        /\ mon_locals' = None
        /\ mon_pc' = "loop"
        /\ last_op' = [op |-> "monitor_cycle.end"]
        /\ UNCHANGED <<ui_pc, envVars, viewerVars, emailVars, after_done, settingsVars,
                       alert_monitoring_active, temp_history, digestVars, ohm_available,
                       storage_temperatures, start_time, refresh_rate_var, is_monitoring,
                       current_log_file, files, searchVars, buttonVars, messagebox, console>>

(***************************************************************************)
(* SpecPairs: the monitoring loop appending to the two history deques      *)
(* while the main thread runs update_display, which ends in update_graph.  *)
(***************************************************************************)
\* how many poll cycles one run makes
MaxPairCycles == 3

NextPairs ==
    \/ Cycles < MaxPairCycles /\ \E e \in AlertEnvs : MonitorPollMin(e, e, e)
    \/ MonitorPollMax
    \/ MonitorPollEnd
    \/ now < wake_at /\ mon_pc = "loop" /\ Tick(wake_at - now)
    \/ RunAfter(TRUE)

SpecPairs == Init /\ [][NextPairs]_vars

\* the main thread runs update_display, and with it update_graph, which
\* reads both deques
GraphStep ==
    /\ after_done' = after_done + 1
    /\ IsDisplay(after_queue[after_done + 1])

\* the i-th temperature and the i-th time were appended by the same cycle
SameCycle(i) ==
    \E k \in 1..Len(after_queue) :
        /\ IsDisplay(after_queue[k])
        /\ after_queue[k].max_temp = Some(temp_history[i])
        /\ after_queue[k].current_time = time_history[i]

\* C25: whenever update_graph reads the history, temp_history and
\* time_history have the same length and their i-th elements come from the
\* same poll cycle.
C25_HistoryPaired ==
    [][GraphStep =>
          /\ Len(temp_history) = Len(time_history)
          /\ \A i \in 1..Len(temp_history) : SameCycle(i)]_vars

(***************************************************************************)
(* email_scheduler statement by statement, for a check at which a report   *)
(* is due.  The two steps together are EmailCheck.                         *)
(***************************************************************************)
\* the check, the report if there is data, and self.min_temp = float('inf')
EmailResetMin(e, smtp_ok) ==
    LET current_time == now
        attempt == Truthy(storage_temperatures)
    IN  /\ email_pc = "loop"
        /\ is_monitoring
        /\ now >= email_wake_at
        /\ current_time - last_email_time >= email_interval
        /\ IF attempt
           THEN /\ send_email_report(e, smtp_ok, TRUE)
                /\ last_email_time' = LastEmailTimeAfter(TRUE, SentOk(e, smtp_ok),
                                                         current_time, last_email_time)
           ELSE UNCHANGED <<ohm_available, console, log_buffer, writer_pc, writer_file,
                            email_log, last_email_time>>
        /\ min_temp' = PosInf
        /\ email_pc' = "max_reset"
        /\ last_op' = [op |-> "email_check.min", due |-> TRUE, attempt |-> attempt]
        /\ UNCHANGED <<fineVars, envVars, viewerVars, after_done, settingsVars, alertVars,
                       historyVars, max_temp, storage_temperatures, mon_pc, start_time,
                       wake_at, refresh_rate_var, is_monitoring, email_wake_at,
                       current_log_file, files, searchVars, buttonVars, after_queue,
                       messagebox>>

\* self.max_temp = float('-inf') and the sleep
EmailResetMax ==
    /\ email_pc = "max_reset"
    /\ max_temp' = NegInf
    /\ email_wake_at' = now + EmailPeriod
    /\ email_pc' = "loop"
    /\ last_op' = [op |-> "email_check.max"]
    /\ UNCHANGED <<fineVars, envVars, viewerVars, last_email_time, email_log, after_done,
                   settingsVars, alertVars, historyVars, min_temp, monitorVars, logVars,
                   searchVars, buttonVars, after_queue, messagebox, console>>

(***************************************************************************)
(* SpecDigest: the monitoring loop updating the digest window while the    *)
(* email scheduler resets it.                                              *)
(***************************************************************************)
\* how many poll cycles one run makes
MaxDigestCycles == 2

\* how many checks the email scheduler makes in one run
MaxDigestChecks == 2

NextDigest ==
    \/ Cycles < MaxDigestCycles /\ \E e \in AlertEnvs : MonitorPollMin(e, e, e)
    \/ MonitorPollMax
    \/ MonitorPollEnd
    \/ EmailChecks < MaxDigestChecks /\
          \E smtp_ok \in BOOLEAN : EmailResetMin(EnvOne(RawNormal), smtp_ok)
    \/ EmailResetMax
    \/ mon_pc = "loop" /\ email_pc = "loop" /\ LoopTick

SpecDigest == Init /\ [][NextDigest]_vars

\* the window is empty, or holds a minimum and a maximum in that order
WindowConsistent ==
    \/ min_temp = PosInf /\ max_temp = NegInf
    \/ min_temp.k = "num" /\ max_temp.k = "num" /\ min_temp.v <= max_temp.v

\* C26: whenever neither thread is inside its update or its reset, min_temp
\* and max_temp are both empty or both finite with min_temp <= max_temp.
C26_WindowConsistent ==
    (mon_pc = "loop" /\ email_pc = "loop") => WindowConsistent

\* C27: in every poll cycle the max passed on is the largest of the readings
\* the cycle stored in storage_temperatures and the average is their mean;
\* so a cycle has a max exactly when it has stored readings.
C27_OneSnapshot ==
    [][(last_op'.op = "monitor_cycle" /\ CycleStep) =>
          /\ NewDisplay.max_temp = ExpectedMax(storage_temperatures')
          /\ NewDisplay.avg_temp = ExpectedAverage(storage_temperatures')]_vars

\* a is b with some elements left out
RECURSIVE IsSubseqOf(_, _)
IsSubseqOf(a, b) ==
    IF a = <<>> THEN TRUE
    ELSE IF b = <<>> THEN FALSE
    ELSE IF Head(a) = Head(b) THEN IsSubseqOf(Tail(a), Tail(b))
    ELSE IsSubseqOf(a, Tail(b))

\* C28: the lines of every daily file are in the order of the
\* log_temperature calls that made them (the order of log_buffer), and once
\* every writer thread has finished the files hold as many lines as entries
\* were appended.
C28_PersistedInOrder ==
    /\ \A d \in DOMAIN files : IsSubseqOf(LinesOn(d), log_buffer)
    /\ AllWritten => Len(FilesInOrder(FirstDay, today)) = Len(log_buffer)

\* C29: every line of the daily file of date D carries a timestamp of date
\* D, so a one-day range query for D returns only entries timestamped on D.
C29_LinesCarryFileDate ==
    \A d \in DOMAIN files :
        /\ \A i \in 1..Len(LinesOn(d)) : LinesOn(d)[i].date = d
        /\ \A i \in 1..Len(get_logs_for_date_range(files, d, d)) :
              get_logs_for_date_range(files, d, d)[i].date = d

(***************************************************************************)
(* The live-log window.  log_text holds the lines of the window's text     *)
(* widget; last_log_index belongs to the LogManager, which outlives every  *)
(* window.                                                                 *)
(***************************************************************************)
\* the line refresh_log_display inserts when there is nothing to show
NoLogsLine == [placeholder |-> "No logs available yet..."]

\* logs[-n:]
LastN(logs, n) == SubSeq(logs, (IF Len(logs) > n THEN Len(logs) - n + 1 ELSE 1), Len(logs))

\* the 1000 of logs[-1000:] in refresh_log_display
RecentLines == 1000

\* LiveLogWindow.refresh_log_display: the text after the initial load
RefreshLogDisplay(logs) ==
    IF logs = <<>> THEN <<NoLogsLine>> ELSE LastN(logs, RecentLines)

\* LiveLogWindow.create_window: builds the window, then refresh_log_display(),
\* then the first update_live_log(), which reschedules itself every 1000 ms.
create_window ==
    LET all_logs == get_all_logs(files)
        new_logs == SliceFrom(all_logs, last_log_index)
    IN  /\ IsNone(log_text)
        /\ log_text' = Some(RefreshLogDisplay(all_logs) \o new_logs)
        /\ last_log_index' = Len(all_logs)
        /\ live_log' = live_log \o new_logs
        /\ last_op' = [op |-> "create_window", new_logs |-> new_logs]
        /\ UNCHANGED <<fineVars, envVars, emailVars, after_done, settingsVars, alertVars,
                       historyVars, digestVars, monitorVars, logVars, searchVars, buttonVars,
                       after_queue, messagebox, console>>

\* LiveLogWindow.update_live_log, run by the window's 1000 ms timer
update_live_log ==
    LET all_logs == get_all_logs(files)
        new_logs == SliceFrom(all_logs, last_log_index)
    IN  /\ ~IsNone(log_text)
        /\ log_text' = Some(Val(log_text) \o new_logs)
        /\ last_log_index' = Len(all_logs)
        /\ live_log' = live_log \o new_logs
        /\ last_op' = [op |-> "update_live_log", new_logs |-> new_logs]
        /\ UNCHANGED <<fineVars, envVars, emailVars, after_done, settingsVars, alertVars,
                       historyVars, digestVars, monitorVars, logVars, searchVars, buttonVars,
                       after_queue, messagebox, console>>

\* LiveLogWindow.on_close: the window is destroyed
LiveLogOnClose ==
    /\ ~IsNone(log_text)
    /\ log_text' = None
    /\ last_op' = [op |-> "LiveLogWindow.on_close"]
    /\ UNCHANGED <<last_log_index, live_log, fineVars, envVars, emailVars, after_done,
                   settingsVars, alertVars, historyVars, digestVars, monitorVars, logVars,
                   searchVars, buttonVars, after_queue, messagebox, console>>

MaxLiveEntries == 3

\* entries are logged one at a time, each persisted before the next is
\* logged; windows are opened, updated and closed at any moment.
NextLive ==
    \/ Len(log_buffer) < MaxLiveEntries /\ AllWritten /\ start_alert_monitoring
    \/ Len(log_buffer) < MaxLiveEntries /\ AllWritten /\ stop_alert_monitoring
    \/ \E i \in 1..Len(log_buffer) : WriterBegin(i)
    \/ \E i \in 1..Len(log_buffer) : WriterOpen(i)
    \/ \E i \in 1..Len(log_buffer) : WriterWrite(i)
    \/ create_window
    \/ update_live_log
    \/ LiveLogOnClose

SpecLive == Init /\ [][NextLive]_vars

\* the persisted log lines found in the window's text
ShownLines == SelectSeq(Val(log_text), LAMBDA l : l # NoLogsLine)

\* C30: right after a live-log window's initial load with its first update,
\* and after each later 1 s update, the window shows every persisted line
\* exactly as often as it was persisted: no duplicate, no omission.
C30_WindowShowsEachOnce ==
    (~IsNone(log_text) /\ last_op.op \in {"create_window", "update_live_log"})
        => /\ Len(ShownLines) = Len(get_all_logs(files))
           /\ \A i \in 1..Len(get_all_logs(files)) :
                 Count(ShownLines, get_all_logs(files)[i])
                     = Count(get_all_logs(files), get_all_logs(files)[i])

====
